---- MODULE Spec2Model ----
(***************************************************************************)
(* MathGraph: the Information Schema held by graphStore, the SQL generator *)
(* (sql-generator.ts) and the constraint validator (validation.ts).        *)
(*                                                                         *)
(* JavaScript Maps are modelled as sequences of records in insertion       *)
(* order (Map iteration order), looked up by their id field.  Strings that *)
(* the code edits character by character (names) are sequences of          *)
(* one-character strings; SQL texts are sequences of such tokens.          *)
(***************************************************************************)
EXTENDS Integers, Sequences, FiniteSets, TLC

VARIABLES schema, population, pc, dialect, sqlSchema, ddl, validation,
          canvasState, returned, selection, history, historyIndex, clipboard,
          journal, projectStore, localStorage

\* project-store.ts besides the maps of the canvas: the selected nodes and
\* edges, the undo history and the clipboard of canvasStore, the projects
\* of projectStore and the items of window.localStorage; journal lists the
\* calls made on the stores
storeVars ==
  <<selection, history, historyIndex, clipboard, journal, projectStore,
    localStorage>>

vars == <<schema, population, pc, dialect, sqlSchema, ddl, validation,
          canvasState, returned, storeVars>>

\* createCanvasStore and createProjectStore (project-store.ts) in a
\* browser that has stored nothing: nothing selected, no history, an empty
\* clipboard, no project
NoHistory ==
  /\ selection = [nodes |-> {}, edges |-> {}]
  /\ history = <<>>
  /\ historyIndex = -1
  /\ clipboard = [nodes |-> <<>>, edges |-> <<>>]
  /\ journal = <<>>
  /\ projectStore = [projects |-> <<>>, currentProjectId |-> <<>>]
  /\ localStorage = [mathgraph_projects |-> <<>>,
                     mathgraph_current_project |-> <<>>]

(***************************************************************************)
(* Bounds of the model                                                     *)
(***************************************************************************)
MaxEntities == 2
MaxLabels == 1
MaxObjects == 2
MaxArity == 3
MaxUniqueConstraints == 1
MaxEnumerations == 1

(***************************************************************************)
(* Generic helpers                                                         *)
(***************************************************************************)
Range(s) == {s[i] : i \in DOMAIN s}

RECURSIVE FlatMap(_, _)
\* concatenation of Op(s[1]), Op(s[2]), ... (a for-loop pushing onto an array)
FlatMap(Op(_), s) ==
  IF s = <<>> THEN <<>> ELSE Op(Head(s)) \o FlatMap(Op, Tail(s))

\* Map.has / Map.get on a Map modelled as a sequence of records with an id
MapHas(m, id) == \E i \in DOMAIN m : m[i].id = id

MapGet(m, id) == m[CHOOSE i \in DOMAIN m : m[i].id = id]

\* Map.set: an existing key keeps its position, a new key is appended
MapSet(m, rec) ==
  IF MapHas(m, rec.id)
  THEN [i \in DOMAIN m |-> IF m[i].id = rec.id THEN rec ELSE m[i]]
  ELSE Append(m, rec)

\* Map.delete
MapDelete(m, id) == SelectSeq(m, LAMBDA r : r.id # id)

\* Array.prototype.find as an index: the first index satisfying Test, 0 if none
FindIndex(s, Test(_)) ==
  IF \E i \in DOMAIN s : Test(s[i])
  THEN CHOOSE i \in DOMAIN s : Test(s[i]) /\ \A j \in 1..(i-1) : ~Test(s[j])
  ELSE 0

\* Array.prototype.join(sep) on an array of texts
RECURSIVE Join(_, _)
Join(texts, sep) ==
  IF texts = <<>> THEN <<>>
  ELSE IF Len(texts) = 1 THEN texts[1]
  ELSE texts[1] \o sep \o Join(Tail(texts), sep)

(***************************************************************************)
(* Names and their sanitisation                                            *)
(***************************************************************************)
UpperChars == <<"A","B","C","D","E","F","G","H","I","J","K","L","M",
                "N","O","P","Q","R","S","T","U","V","W","X","Y","Z">>
LowerChars == <<"a","b","c","d","e","f","g","h","i","j","k","l","m",
                "n","o","p","q","r","s","t","u","v","w","x","y","z">>
DigitChars == {"0","1","2","3","4","5","6","7","8","9"}
SpaceChars == {" "}

\* [a-zA-Z0-9_]
WordChars == Range(UpperChars) \cup Range(LowerChars) \cup DigitChars \cup {"_"}

IsWordChar(c) == c \in WordChars

\* String.prototype.toLowerCase on the characters that survive the filter
LowerOf ==
  [c \in WordChars |->
     IF \E i \in DOMAIN UpperChars : UpperChars[i] = c
     THEN LowerChars[CHOOSE i \in DOMAIN UpperChars : UpperChars[i] = c]
     ELSE c]

ToLowerChar(c) == LowerOf[c]

RECURSIVE CollapseSpaces(_)
\* .replace(/\s+/g, '_'): every maximal run of whitespace becomes one '_'
CollapseSpaces(name) ==
  IF name = <<>> THEN <<>>
  ELSE IF Head(name) \in SpaceChars
       THEN IF Len(name) > 1 /\ name[2] \in SpaceChars
            THEN CollapseSpaces(Tail(name))
            ELSE <<"_">> \o CollapseSpaces(Tail(name))
       ELSE <<Head(name)>> \o CollapseSpaces(Tail(name))

\* SQLGenerator.sanitizeName
sanitizeName(name) ==
  LET spaced == CollapseSpaces(name)
      kept == SelectSeq(spaced, IsWordChar)
  IN [i \in DOMAIN kept |-> ToLowerChar(kept[i])]

ID == <<"i","d">>

(***************************************************************************)
(* SQL dialects and the dialect type tables (constants.ts)                 *)
(***************************************************************************)
SQLDialect == {"PostgreSQL", "MySQL", "SQLite", "SQL Server"}

DataType == {"String", "Integer", "Decimal", "Boolean", "Date", "DateTime"}

SQL_TYPE_MAPPING ==
  [d \in SQLDialect |->
    CASE d = "PostgreSQL" ->
           [t \in DataType |->
             CASE t = "String" -> "VARCHAR(255)" [] t = "Integer" -> "INTEGER"
               [] t = "Decimal" -> "NUMERIC(10,2)" [] t = "Boolean" -> "BOOLEAN"
               [] t = "Date" -> "DATE" [] t = "DateTime" -> "TIMESTAMP"]
      [] d = "MySQL" ->
           [t \in DataType |->
             CASE t = "String" -> "VARCHAR(255)" [] t = "Integer" -> "INT"
               [] t = "Decimal" -> "DECIMAL(10,2)" [] t = "Boolean" -> "BOOLEAN"
               [] t = "Date" -> "DATE" [] t = "DateTime" -> "DATETIME"]
      [] d = "SQLite" ->
           [t \in DataType |->
             CASE t = "String" -> "TEXT" [] t = "Integer" -> "INTEGER"
               [] t = "Decimal" -> "REAL" [] t = "Boolean" -> "INTEGER"
               [] t = "Date" -> "TEXT" [] t = "DateTime" -> "TEXT"]
      [] d = "SQL Server" ->
           [t \in DataType |->
             CASE t = "String" -> "NVARCHAR(255)" [] t = "Integer" -> "INT"
               [] t = "Decimal" -> "DECIMAL(10,2)" [] t = "Boolean" -> "BIT"
               [] t = "Date" -> "DATE" [] t = "DateTime" -> "DATETIME2"]]

\* variant of getSQLType that reads the PostgreSQL table under every dialect
getSQLType_oneTable(d, dataType) == SQL_TYPE_MAPPING["PostgreSQL"][dataType]

\* SQLGenerator.getSQLType
getSQLType(d, dataType) == SQL_TYPE_MAPPING[d][dataType]

\* SQLGenerator.getAutoIncrementColumn
getAutoIncrementColumn(d) ==
  CASE d = "PostgreSQL" -> "SERIAL"
    [] d = "MySQL" -> "INT AUTO_INCREMENT"
    [] d = "SQLite" -> "INTEGER"
    [] d = "SQL Server" -> "INT IDENTITY(1,1)"
    [] OTHER -> "INTEGER"

(***************************************************************************)
(* SQL generator (sql-generator.ts)                                        *)
(***************************************************************************)
FK_ == <<"f","k","_">>
UNDERSCORE == <<"_">>

\* SQLGenerator.createForeignKeyColumn; references is <<>> when undefined
createForeignKeyColumn(d, predicator, referencedObject, isNullable) ==
  [name |-> sanitizeName(predicator.name),
   dataType |-> IF referencedObject.kind = "Entity" THEN "INTEGER"
                ELSE IF referencedObject.kind = "Label"
                     THEN getSQLType(d, referencedObject.dataType)
                     ELSE "INTEGER",
   isNullable |-> isNullable,
   isPrimaryKey |-> FALSE,
   isUnique |-> FALSE,
   references |-> IF referencedObject.kind = "Entity"
                  THEN <<[table |-> sanitizeName(referencedObject.name),
                          column |-> ID]>>
                  ELSE <<>>]

\* the foreign key pushed next to a column that has references
ColumnForeignKey(ownerName, column, onDelete) ==
  IF column.references = <<>> THEN <<>>
  ELSE <<[name |-> FK_ \o sanitizeName(ownerName) \o UNDERSCORE \o column.name,
          columns |-> <<column.name>>,
          referencedTable |-> column.references[1].table,
          referencedColumns |-> <<column.references[1].column>>,
          onDelete |-> onDelete,
          onUpdate |-> "CASCADE"]>>

\* variant of shouldBeColumn that looks for the uniqueness constraint on the
\* other role of the fact type
shouldBeColumn_otherRole(factType, predicator, sch) ==
  IF factType.arity # 2 THEN FALSE
  ELSE \E i \in DOMAIN sch.uniqueConstraints :
         /\ Len(sch.uniqueConstraints[i].predicatorIds) = 1
         /\ sch.uniqueConstraints[i].predicatorIds[1]
              \in Range(factType.predicators) \ {predicator.id}

\* SQLGenerator.shouldBeColumn
shouldBeColumn(factType, predicator, sch) ==
  IF factType.arity # 2 THEN FALSE
  ELSE \E i \in DOMAIN sch.uniqueConstraints :
         /\ predicator.id \in Range(sch.uniqueConstraints[i].predicatorIds)
         /\ Len(sch.uniqueConstraints[i].predicatorIds) = 1

\* variant of requiresSeparateTable without the arity test of line 406
requiresSeparateTable_noArityTest(factType, sch) ==
  IF factType.isObjectified THEN FALSE
  ELSE ~ \E k \in DOMAIN factType.predicators :
           \E i \in DOMAIN sch.uniqueConstraints :
             /\ Len(sch.uniqueConstraints[i].predicatorIds) = 1
             /\ sch.uniqueConstraints[i].predicatorIds[1] = factType.predicators[k]

\* SQLGenerator.requiresSeparateTable
requiresSeparateTable(factType, sch) ==
  IF factType.arity > 2 THEN TRUE
  ELSE IF factType.isObjectified THEN FALSE
  ELSE ~ \E k \in DOMAIN factType.predicators :
           \E i \in DOMAIN sch.uniqueConstraints :
             /\ Len(sch.uniqueConstraints[i].predicatorIds) = 1
             /\ sch.uniqueConstraints[i].predicatorIds[1] = factType.predicators[k]

\* SQLGenerator.getColumnsForConstraint
getColumnsForConstraint(constraint, sch) ==
  LET resolved == SelectSeq(constraint.predicatorIds,
                            LAMBDA id : MapHas(sch.predicators, id))
  IN [i \in DOMAIN resolved |->
        sanitizeName(MapGet(sch.predicators, resolved[i]).name)]

\* SQLGenerator.generateEnumCheckConstraint
generateEnumCheckConstraint(columnName, allowedValues) ==
  LET rendered == [i \in DOMAIN allowedValues |->
                     IF allowedValues[i].type = "string"
                     THEN <<"'">> \o allowedValues[i].text \o <<"'">>
                     ELSE allowedValues[i].text]
  IN [name |-> <<"c","h","k","_">> \o columnName \o <<"_","e","n","u","m">>,
      expression |-> columnName \o <<" IN (">> \o Join(rendered, <<", ">>) \o <<")">>]

\* generateEntityTable, lines 117-118: the primary identifier (<<>> if none)
PrimaryIdentifier(entity) ==
  LET i == FindIndex(entity.identifiers, LAMBDA c : c.isPrimary)
  IN IF i # 0 THEN <<entity.identifiers[i]>>
     ELSE IF Len(entity.identifiers) > 0 THEN <<entity.identifiers[1]>>
     ELSE <<>>

\* generateEntityTable, lines 139-142: the other predicator of a fact type
OtherPredicator(factType, predicator, sch) ==
  LET i == FindIndex(factType.predicators,
                     LAMBDA id : MapHas(sch.predicators, id) /\ id # predicator.id)
  IN IF i = 0 THEN <<>> ELSE <<MapGet(sch.predicators, factType.predicators[i])>>

\* generateEntityTable, lines 120-170: the column one predicator contributes
EntityPredicatorColumn(d, entity, predicator, sch) ==
  IF predicator.objectId # entity.id THEN <<>>
  ELSE IF ~MapHas(sch.factTypes, predicator.factTypeId) THEN <<>>
  ELSE LET factType == MapGet(sch.factTypes, predicator.factTypeId)
       IN IF factType.isUnary
          THEN <<[name |-> sanitizeName(factType.name),
                  dataType |-> getSQLType(d, "Boolean"),
                  isNullable |-> predicator.isOptional,
                  isPrimaryKey |-> FALSE,
                  isUnique |-> FALSE,
                  references |-> <<>>]>>
          ELSE IF factType.arity = 2 /\ shouldBeColumn(factType, predicator, sch)
          THEN LET other == OtherPredicator(factType, predicator, sch)
               IN IF other = <<>> THEN <<>>
                  ELSE IF ~MapHas(sch.objects, other[1].objectId) THEN <<>>
                  ELSE <<createForeignKeyColumn(d, other[1],
                            MapGet(sch.objects, other[1].objectId),
                            predicator.isOptional)>>
          ELSE <<>>

\* generateEntityTable, lines 120-170: columns in predicator iteration order
EntityFactColumns(d, entity, sch) ==
  FlatMap(LAMBDA p : EntityPredicatorColumn(d, entity, p, sch), sch.predicators)

\* generateEntityTable, lines 155-165: foreign keys of the fact columns
\* (a unary column has no references)
EntityFactForeignKeys(d, entity, sch) ==
  FlatMap(LAMBDA c : ColumnForeignKey(entity.name, c, "RESTRICT"),
          EntityFactColumns(d, entity, sch))

\* generateEntityTable, lines 172-191: surrogate key or marked key columns
EntityKeyedColumns(d, entity, sch) ==
  LET columns == EntityFactColumns(d, entity, sch)
      pid == PrimaryIdentifier(entity)
  IN IF pid = <<>> \/ Len(pid[1].predicatorIds) = 0
     THEN <<[name |-> ID,
             dataType |-> getAutoIncrementColumn(d),
             isNullable |-> FALSE,
             isPrimaryKey |-> TRUE,
             isUnique |-> TRUE,
             references |-> <<>>]>> \o columns
     ELSE LET pkColumns == getColumnsForConstraint(pid[1], sch)
              marked == {FindIndex(columns, LAMBDA c : c.name = pkColumns[k]) :
                           k \in DOMAIN pkColumns}
          IN [i \in DOMAIN columns |->
                IF i \in marked
                THEN [columns[i] EXCEPT !.isPrimaryKey = TRUE, !.isNullable = FALSE]
                ELSE columns[i]]

\* generateEntityTable, lines 193-201
EntityUniqueConstraints(entity, sch) ==
  FlatMap(LAMBDA identifier :
            IF ~identifier.isPrimary /\ Len(getColumnsForConstraint(identifier, sch)) > 0
            THEN <<getColumnsForConstraint(identifier, sch)>>
            ELSE <<>>,
          entity.identifiers)

\* generateEntityTable, lines 203-218
EntitySpecializationForeignKeys(entity, sch) ==
  FlatMap(LAMBDA parentId :
            IF MapHas(sch.entities, parentId)
            THEN <<[name |-> FK_ \o sanitizeName(entity.name) \o <<"_","p","a","r","e","n","t">>,
                    columns |-> <<ID>>,
                    referencedTable |-> sanitizeName(MapGet(sch.entities, parentId).name),
                    referencedColumns |-> <<ID>>,
                    onDelete |-> "CASCADE",
                    onUpdate |-> "CASCADE"]>>
            ELSE <<>>,
          entity.specializationOf)

\* generateEntityTable, lines 220-231
EntityCheckConstraints(columns, sch) ==
  FlatMap(LAMBDA enumConstraint :
            IF ~MapHas(sch.labelTypes, enumConstraint.labelTypeId) THEN <<>>
            ELSE LET labelType == MapGet(sch.labelTypes, enumConstraint.labelTypeId)
                     i == FindIndex(columns,
                                    LAMBDA c : c.name = sanitizeName(labelType.name))
                 IN IF i = 0 THEN <<>>
                    ELSE <<generateEnumCheckConstraint(columns[i].name,
                                                      enumConstraint.allowedValues)>>,
          sch.enumerationConstraints)

\* SQLGenerator.generateEntityTable
generateEntityTable(d, entity, sch) ==
  LET columns == EntityKeyedColumns(d, entity, sch)
      pk == SelectSeq(columns, LAMBDA c : c.isPrimaryKey)
  IN [name |-> sanitizeName(entity.name),
      columns |-> columns,
      primaryKey |-> [i \in DOMAIN pk |-> pk[i].name],
      foreignKeys |-> EntityFactForeignKeys(d, entity, sch)
                        \o EntitySpecializationForeignKeys(entity, sch),
      uniqueConstraints |-> EntityUniqueConstraints(entity, sch),
      checkConstraints |-> EntityCheckConstraints(columns, sch)]

\* the predicators of a fact type that resolve together with their object
\* (generateObjectifiedFactTable 260-265, generateFactTypeTable 305-310)
ResolvedPredicators(factType, sch) ==
  LET ids == SelectSeq(factType.predicators,
                LAMBDA id : /\ MapHas(sch.predicators, id)
                            /\ MapHas(sch.objects, MapGet(sch.predicators, id).objectId))
  IN [i \in DOMAIN ids |-> MapGet(sch.predicators, ids[i])]

\* SQLGenerator.generateObjectifiedFactTable
generateObjectifiedFactTable(d, factType, sch) ==
  LET preds == ResolvedPredicators(factType, sch)
      cols == [i \in DOMAIN preds |->
                 createForeignKeyColumn(d, preds[i],
                    MapGet(sch.objects, preds[i].objectId), preds[i].isOptional)]
  IN [name |-> sanitizeName(factType.name),
      columns |-> <<[name |-> ID,
                     dataType |-> getAutoIncrementColumn(d),
                     isNullable |-> FALSE,
                     isPrimaryKey |-> TRUE,
                     isUnique |-> TRUE,
                     references |-> <<>>]>> \o cols,
      primaryKey |-> <<ID>>,
      foreignKeys |-> FlatMap(LAMBDA c : ColumnForeignKey(factType.name, c, "RESTRICT"), cols),
      uniqueConstraints |-> <<>>,
      checkConstraints |-> <<>>]

\* SQLGenerator.generateFactTypeTable
generateFactTypeTable(d, factType, sch) ==
  LET preds == ResolvedPredicators(factType, sch)
      cols == [i \in DOMAIN preds |->
                 createForeignKeyColumn(d, preds[i],
                    MapGet(sch.objects, preds[i].objectId), FALSE)]
  IN [name |-> sanitizeName(factType.name),
      columns |-> cols,
      primaryKey |-> [i \in DOMAIN cols |-> cols[i].name],
      foreignKeys |-> FlatMap(LAMBDA c : ColumnForeignKey(factType.name, c, "CASCADE"), cols),
      uniqueConstraints |-> <<>>,
      checkConstraints |-> <<>>]

\* SQLGenerator.generateIndexes
generateIndexes(tables) ==
  FlatMap(LAMBDA table :
            [i \in DOMAIN table.foreignKeys |->
               [name |-> <<"i","d","x","_">> \o table.name \o UNDERSCORE
                           \o Join(table.foreignKeys[i].columns, UNDERSCORE),
                tableName |-> table.name,
                columns |-> table.foreignKeys[i].columns,
                isUnique |-> FALSE]],
          tables)

\* generateSchema, pass 2: the objectified fact types
ObjectifiedFactTypes(sch) ==
  SelectSeq(sch.factTypes, LAMBDA f : f.isObjectified /\ f.objectifiedAsId # "")

\* generateSchema, pass 3: the fact types that get a junction table
JunctionFactTypes(sch) ==
  SelectSeq(sch.factTypes,
            LAMBDA f : /\ ~f.isObjectified /\ ~f.isUnary /\ f.arity > 1
                       /\ requiresSeparateTable(f, sch))

\* SQLGenerator.generateSchema.  sources[i] records which schema element
\* tables[i] was generated from (kind and id); it is not part of SQLSchema.
generateSchema(d, sch) ==
  LET ofs == ObjectifiedFactTypes(sch)
      jfs == JunctionFactTypes(sch)
      tables ==
        [i \in DOMAIN sch.entities |-> generateEntityTable(d, sch.entities[i], sch)]
        \o [i \in DOMAIN ofs |-> generateObjectifiedFactTable(d, ofs[i], sch)]
        \o [i \in DOMAIN jfs |-> generateFactTypeTable(d, jfs[i], sch)]
  IN [dialect |-> d,
      tables |-> tables,
      indexes |-> generateIndexes(tables),
      sources |->
        [i \in DOMAIN sch.entities |-> [kind |-> "entity", id |-> sch.entities[i].id]]
        \o [i \in DOMAIN ofs |-> [kind |-> "objectified", id |-> ofs[i].id]]
        \o [i \in DOMAIN jfs |-> [kind |-> "junction", id |-> jfs[i].id]]]

(***************************************************************************)
(* DDL rendering.  A statement is the sequence of its lines (the code      *)
(* joins them with a newline); a line is a text.                           *)
(***************************************************************************)
COMMA == <<",">>

\* `table.primaryKey || ...` (line 448): an array, even an empty one, is truthy
JsTruthy(array) == TRUE

\* generateCreateTableStatement, lines 440-452 (defaultValue is never set by
\* the generator)
ColumnLines(table) ==
  [i \in DOMAIN table.columns |->
     LET col == table.columns[i]
     IN <<"  ">> \o col.name \o <<" ", col.dataType>>
        \o (IF ~col.isNullable THEN <<" NOT NULL">> ELSE <<>>)
        \o (IF col.isUnique /\ ~col.isPrimaryKey THEN <<" UNIQUE">> ELSE <<>>)
        \o (IF \/ i < Len(table.columns)
               \/ JsTruthy(table.primaryKey)
               \/ Len(table.foreignKeys) > 0
               \/ Len(table.checkConstraints) > 0
            THEN COMMA ELSE <<>>)]

\* generateCreateTableStatement, lines 454-458
PrimaryKeyLines(table) ==
  IF Len(table.primaryKey) > 0
  THEN << <<"  PRIMARY KEY (">> \o Join(table.primaryKey, <<", ">>) \o <<")">>
          \o (IF \/ Len(table.foreignKeys) > 0
                 \/ Len(table.uniqueConstraints) > 0
                 \/ Len(table.checkConstraints) > 0
              THEN COMMA ELSE <<>>) >>
  ELSE <<>>

\* generateCreateTableStatement, lines 460-465
UniqueLines(table) ==
  [i \in DOMAIN table.uniqueConstraints |->
     <<"  UNIQUE (">> \o Join(table.uniqueConstraints[i], <<", ">>) \o <<")">>
     \o (IF \/ i < Len(table.uniqueConstraints)
            \/ Len(table.foreignKeys) > 0
            \/ Len(table.checkConstraints) > 0
         THEN COMMA ELSE <<>>)]

\* generateCreateTableStatement, lines 467-476
ForeignKeyLines(table) ==
  [i \in DOMAIN table.foreignKeys |->
     LET fk == table.foreignKeys[i]
     IN <<"  CONSTRAINT ">> \o fk.name \o <<" FOREIGN KEY (">>
        \o Join(fk.columns, <<", ">>) \o <<") ", "REFERENCES ">>
        \o fk.referencedTable \o <<"(">> \o Join(fk.referencedColumns, <<", ">>) \o <<")">>
        \o <<" ON DELETE ", fk.onDelete, " ON UPDATE ", fk.onUpdate>>
        \o (IF i < Len(table.foreignKeys) \/ Len(table.checkConstraints) > 0
            THEN COMMA ELSE <<>>)]

\* generateCreateTableStatement, lines 478-483
CheckLines(table) ==
  [i \in DOMAIN table.checkConstraints |->
     <<"  CONSTRAINT ">> \o table.checkConstraints[i].name \o <<" CHECK (">>
     \o table.checkConstraints[i].expression \o <<")">>
     \o (IF i < Len(table.checkConstraints) THEN COMMA ELSE <<>>)]

\* SQLGenerator.generateCreateTableStatement
generateCreateTableStatement(table) ==
  << <<"CREATE TABLE ">> \o table.name \o <<" (">> >>
  \o ColumnLines(table)
  \o PrimaryKeyLines(table)
  \o UniqueLines(table)
  \o ForeignKeyLines(table)
  \o CheckLines(table)
  \o << <<");">> >>

\* SQLGenerator.generateCreateIndexStatement
generateCreateIndexStatement(index) ==
  << <<"CREATE ">> \o (IF index.isUnique THEN <<"UNIQUE ">> ELSE <<>>)
     \o <<"INDEX ">> \o index.name \o <<" ON ">> \o index.tableName
     \o <<" (">> \o Join(index.columns, <<", ">>) \o <<");">> >>

\* SQLGenerator.generateDDL: the statements, tables first, then indexes
generateDDL(sql) ==
  [i \in DOMAIN sql.tables |-> generateCreateTableStatement(sql.tables[i])]
  \o [i \in DOMAIN sql.indexes |-> generateCreateIndexStatement(sql.indexes[i])]

(***************************************************************************)
(* Inputs of the editing operations.  Ids stand for the UUIDs the callers  *)
(* generate (crypto.randomUUID): the k-th element of a kind gets the k-th  *)
(* id of its kind.                                                         *)
(***************************************************************************)
EntityId(i) == "e" \o ToString(i)
LabelId(i) == "l" \o ToString(i)
FactTypeId(i) == "f" \o ToString(i)
PredicatorId(i) == "p" \o ToString(i)
UniqueId(i) == "u" \o ToString(i)
EnumId(i) == "n" \o ToString(i)

EntityIds == {EntityId(i) : i \in 1..MaxEntities}

\* names as the user types them (before sanitizeName)
EntityName(i) == IF i % 2 = 1 THEN <<"P","e","r">> ELSE <<"C"," "," ","r">>
LabelName(i) == <<"s","t">>
FactTypeName(i) == <<"H","-","f", ToString(i)>>
\* role names: by position, or the same name for every role of the fact type
PredicatorNameSchemes == {"byPosition", "same"}
PredicatorName(scheme, position) ==
  IF scheme = "same" \/ position = 0 THEN <<"S","t">>
  ELSE <<"o"," ","f","-", ToString(position)>>

LabelDataTypes == {"String", "Integer"}

\* isOptional of the roles of a new fact type: roles are created optional
\* (createUnaryFactType, and the converter's default)
RoleOptionality == {TRUE}

FactTypeIds == {FactTypeId(1)}

AllowedValueLists ==
  { << [type |-> "string", text |-> <<"a","c","t","i","v","e">>],
       [type |-> "string", text |-> <<"i","n","a","c","t","i","v","e">>] >> }

EmptySchema ==
  [objects |-> <<>>, entities |-> <<>>, labelTypes |-> <<>>,
   factTypes |-> <<>>, predicators |-> <<>>,
   uniqueConstraints |-> <<>>, totalRoleConstraints |-> <<>>,
   setConstraints |-> <<>>, cardinalityConstraints |-> <<>>,
   frequencyConstraints |-> <<>>, enumerationConstraints |-> <<>>,
   customConstraints |-> <<>>]

EmptyPopulation == [objectPopulations |-> <<>>, factPopulations |-> <<>>]

\* a canvas without nodes, edges and constraints (createInitialCanvasState)
EmptyCanvas == [nodes |-> <<>>, edges |-> <<>>, constraints |-> <<>>]

NoSQL == [dialect |-> "", tables |-> <<>>, indexes |-> <<>>, sources |-> <<>>]

NoValidation == [isValid |-> TRUE, violations |-> <<>>]

MaxParents == 1

(***************************************************************************)
(* Constraint validator (validation.ts).  A value of Omega is a record     *)
(* [type, text]; a tuple is a function from predicator ids to values (a    *)
(* predicator id outside its domain reads as undefined); an optional       *)
(* number is <<>> (undefined) or <<n>>.                                     *)
(***************************************************************************)
Indices(n) == [i \in 1..n |-> i]

\* JSON.stringify of a value
JSON_stringify(v) ==
  CASE v.type = "string" -> <<"\"">> \o v.text \o <<"\"">>
    [] v.type = "null" -> <<"n","u","l","l">>
    [] OTHER -> v.text

\* tuple.get(predicatorId): <<>> when undefined
TupleGet(tuple, predicatorId) ==
  IF predicatorId \in DOMAIN tuple THEN <<tuple[predicatorId]>> ELSE <<>>

\* value !== null && value !== undefined
IsPresent(got) == got # <<>> /\ got[1].type # "null"

\* a ConstraintViolation; every built-in violation has severity 'Error'
Violation(constraintId, constraintType, message, affectedObjects, affectedFacts) ==
  [constraintId |-> constraintId,
   constraintType |-> constraintType,
   severity |-> "Error",
   message |-> message,
   affectedObjects |-> affectedObjects,
   affectedFacts |-> affectedFacts]

\* a key built from the first constrained predicator only
UniquenessKey_firstPredicator(constraint, tuple) ==
  LET got == TupleGet(tuple, constraint.predicatorIds[1])
  IN IF got = <<>> THEN <<>> ELSE JSON_stringify(got[1])

\* validateUniquenessConstraints, lines 62-65: the key of a tuple
UniquenessKey(constraint, tuple) ==
  Join([i \in DOMAIN constraint.predicatorIds |->
          LET got == TupleGet(tuple, constraint.predicatorIds[i])
          IN IF got = <<>> THEN <<>> ELSE JSON_stringify(got[1])],
       <<"|">>)

\* the violations of one uniqueness constraint
UniquenessViolations(constraint, sch, pop) ==
  IF \/ Len(constraint.predicatorIds) = 0
     \/ ~MapHas(sch.predicators, constraint.predicatorIds[1])
  THEN <<>>
  ELSE LET predicator == MapGet(sch.predicators, constraint.predicatorIds[1])
       IN IF ~MapHas(sch.factTypes, predicator.factTypeId) THEN <<>>
          ELSE IF ~MapHas(pop.factPopulations, predicator.factTypeId) THEN <<>>
          ELSE LET tuples == MapGet(pop.factPopulations, predicator.factTypeId).tuples
                   Seen(k) == \E j \in 1..(k - 1) :
                                UniquenessKey(constraint, tuples[j])
                                  = UniquenessKey(constraint, tuples[k])
               IN FlatMap(LAMBDA k :
                            IF Seen(k)
                            THEN <<Violation(constraint.id, "Uniqueness",
                                     <<"UNIQUENESS_VIOLATION", constraint.name>>,
                                     <<predicator.factTypeId>>, <<tuples[k]>>)>>
                            ELSE <<>>,
                          Indices(Len(tuples)))

\* ConstraintValidator.validateUniquenessConstraints
validateUniquenessConstraints(sch, pop) ==
  FlatMap(LAMBDA c : UniquenessViolations(c, sch, pop), sch.uniqueConstraints)

\* a validator that stops at the first instance that does not participate
TotalRoleViolations_firstOnly(constraint, sch, pop) ==
  IF \/ ~MapHas(sch.predicators, constraint.predicatorId)
     \/ ~MapHas(pop.objectPopulations, constraint.objectId)
     \/ ~MapHas(pop.factPopulations,
                MapGet(sch.predicators, constraint.predicatorId).factTypeId)
  THEN <<>>
  ELSE LET tuples == MapGet(pop.factPopulations,
                       MapGet(sch.predicators, constraint.predicatorId).factTypeId).tuples
           instances == MapGet(pop.objectPopulations, constraint.objectId).instances
       IN IF \E i \in DOMAIN instances : \A k \in DOMAIN tuples :
               TupleGet(tuples[k], constraint.predicatorId) # <<instances[i]>>
          THEN <<Violation(constraint.id, "TotalRole",
                   <<"TOTAL_ROLE_VIOLATION", constraint.name>>,
                   <<constraint.objectId>>, <<>>)>>
          ELSE <<>>

\* the violations of one total role constraint
TotalRoleViolations(constraint, sch, pop) ==
  IF ~MapHas(sch.predicators, constraint.predicatorId) THEN <<>>
  ELSE LET predicator == MapGet(sch.predicators, constraint.predicatorId)
       IN IF ~MapHas(sch.factTypes, predicator.factTypeId) THEN <<>>
          ELSE IF ~MapHas(pop.objectPopulations, constraint.objectId) THEN <<>>
          ELSE IF ~MapHas(pop.factPopulations, predicator.factTypeId) THEN <<>>
          ELSE LET tuples == MapGet(pop.factPopulations, predicator.factTypeId).tuples
                   participatingInstances ==
                     {TupleGet(tuples[k], constraint.predicatorId)[1] :
                        k \in {j \in DOMAIN tuples :
                                 IsPresent(TupleGet(tuples[j], constraint.predicatorId))}}
               IN FlatMap(LAMBDA instance :
                            IF instance \notin participatingInstances
                            THEN <<Violation(constraint.id, "TotalRole",
                                     <<"TOTAL_ROLE_VIOLATION", constraint.name>>,
                                     <<constraint.objectId>>, <<>>)>>
                            ELSE <<>>,
                          MapGet(pop.objectPopulations, constraint.objectId).instances)

\* ConstraintValidator.validateTotalRoleConstraints
validateTotalRoleConstraints(sch, pop) ==
  FlatMap(LAMBDA c : TotalRoleViolations(c, sch, pop), sch.totalRoleConstraints)

\* ConstraintValidator.getPredicatorPopulation: a set of JSON strings
getPredicatorPopulation(predicatorIds, sch, pop) ==
  UNION {
    IF ~MapHas(sch.predicators, predId) THEN {}
    ELSE IF ~MapHas(sch.factTypes, MapGet(sch.predicators, predId).factTypeId) THEN {}
    ELSE IF ~MapHas(pop.factPopulations, MapGet(sch.predicators, predId).factTypeId)
         THEN {}
    ELSE LET tuples == MapGet(pop.factPopulations,
                              MapGet(sch.predicators, predId).factTypeId).tuples
         IN {JSON_stringify(TupleGet(tuples[k], predId)[1]) :
               k \in {j \in DOMAIN tuples : IsPresent(TupleGet(tuples[j], predId))}}
    : predId \in Range(predicatorIds)}

\* a validator whose Equality case compares no sizes
SetViolations_noSizeCheck(constraint, sch, pop) ==
  LET sourcePop == getPredicatorPopulation(constraint.sourcePredicatorIds, sch, pop)
      targetPop == getPredicatorPopulation(constraint.targetPredicatorIds, sch, pop)
      both == constraint.sourcePredicatorIds \o constraint.targetPredicatorIds
      failed == IF constraint.type = "Exclusion"
                THEN \E v \in sourcePop : v \in targetPop
                ELSE \E v \in sourcePop : v \notin targetPop
  IN IF ~failed THEN <<>>
     ELSE <<Violation(constraint.id, "SetConstraint",
              <<CASE constraint.type = "Subset" -> "SUBSET_VIOLATION"
                  [] constraint.type = "Equality" -> "EQUALITY_VIOLATION"
                  [] OTHER -> "EXCLUSION_VIOLATION",
                constraint.name>>,
              IF constraint.type = "Subset" THEN constraint.sourcePredicatorIds
              ELSE both,
              <<>>)>>

\* the violations (at most one) of one set constraint
SetViolations(constraint, sch, pop) ==
  LET sourcePop == getPredicatorPopulation(constraint.sourcePredicatorIds, sch, pop)
      targetPop == getPredicatorPopulation(constraint.targetPredicatorIds, sch, pop)
      both == constraint.sourcePredicatorIds \o constraint.targetPredicatorIds
  IN CASE constraint.type = "Subset" ->
            IF \E v \in sourcePop : v \notin targetPop
            THEN <<Violation(constraint.id, "SetConstraint",
                     <<"SUBSET_VIOLATION", constraint.name>>,
                     constraint.sourcePredicatorIds, <<>>)>>
            ELSE <<>>
       [] constraint.type = "Equality" ->
            IF \/ Cardinality(sourcePop) # Cardinality(targetPop)
               \/ \E v \in sourcePop : v \notin targetPop
            THEN <<Violation(constraint.id, "SetConstraint",
                     <<"EQUALITY_VIOLATION", constraint.name>>, both, <<>>)>>
            ELSE <<>>
       [] constraint.type = "Exclusion" ->
            IF \E v \in sourcePop : v \in targetPop
            THEN <<Violation(constraint.id, "SetConstraint",
                     <<"EXCLUSION_VIOLATION", constraint.name>>, both, <<>>)>>
            ELSE <<>>
       [] OTHER -> <<>>

\* ConstraintValidator.validateSetConstraints
validateSetConstraints(sch, pop) ==
  FlatMap(LAMBDA c : SetViolations(c, sch, pop), sch.setConstraints)

\* the violations of one cardinality constraint: instanceCounts is iterated
\* in the order in which the instances first occur
CardinalityViolations(constraint, sch, pop) ==
  IF ~MapHas(sch.predicators, constraint.predicatorId) THEN <<>>
  ELSE LET predicator == MapGet(sch.predicators, constraint.predicatorId)
       IN IF ~MapHas(sch.factTypes, predicator.factTypeId) THEN <<>>
          ELSE IF ~MapHas(pop.factPopulations, predicator.factTypeId) THEN <<>>
          ELSE LET tuples == MapGet(pop.factPopulations, predicator.factTypeId).tuples
                   Got(k) == TupleGet(tuples[k], constraint.predicatorId)
                   Count(k) == Cardinality({j \in DOMAIN tuples : Got(j) = Got(k)})
                   First(k) == /\ IsPresent(Got(k))
                               /\ \A j \in 1..(k - 1) : Got(j) # Got(k)
               IN FlatMap(LAMBDA k :
                     IF ~First(k) THEN <<>>
                     ELSE (IF constraint.min # <<>> /\ Count(k) < constraint.min[1]
                           THEN <<Violation(constraint.id, "Cardinality",
                                    <<"CARDINALITY_MIN_VIOLATION", constraint.name,
                                      constraint.min[1], Count(k)>>,
                                    <<predicator.objectId>>, <<>>)>>
                           ELSE <<>>)
                          \o
                          (IF constraint.max # <<>> /\ Count(k) > constraint.max[1]
                           THEN <<Violation(constraint.id, "Cardinality",
                                    <<"CARDINALITY_MAX_VIOLATION", constraint.name,
                                      constraint.max[1], Count(k)>>,
                                    <<predicator.objectId>>, <<>>)>>
                           ELSE <<>>),
                     Indices(Len(tuples)))

\* ConstraintValidator.validateCardinalityConstraints
validateCardinalityConstraints(sch, pop) ==
  FlatMap(LAMBDA c : CardinalityViolations(c, sch, pop), sch.cardinalityConstraints)

\* a validator for which a count equal to a bound breaches it
FrequencyViolations_inclusive(constraint, pop) ==
  LET count == IF MapHas(pop.factPopulations, constraint.factTypeId)
               THEN Len(MapGet(pop.factPopulations, constraint.factTypeId).tuples)
               ELSE 0
  IN (IF constraint.min # <<>> /\ count <= constraint.min[1]
      THEN <<Violation(constraint.id, "Frequency",
               <<"FREQUENCY_MIN_VIOLATION", constraint.name, constraint.min[1], count>>,
               <<constraint.factTypeId>>, <<>>)>>
      ELSE <<>>)
     \o
     (IF constraint.max # <<>> /\ count >= constraint.max[1]
      THEN <<Violation(constraint.id, "Frequency",
               <<"FREQUENCY_MAX_VIOLATION", constraint.name, constraint.max[1], count>>,
               <<constraint.factTypeId>>, <<>>)>>
      ELSE <<>>)

\* the violations of one frequency constraint: factPop?.tuples.length || 0
FrequencyViolations(constraint, pop) ==
  LET count == IF MapHas(pop.factPopulations, constraint.factTypeId)
               THEN Len(MapGet(pop.factPopulations, constraint.factTypeId).tuples)
               ELSE 0
  IN (IF constraint.min # <<>> /\ count < constraint.min[1]
      THEN <<Violation(constraint.id, "Frequency",
               <<"FREQUENCY_MIN_VIOLATION", constraint.name, constraint.min[1], count>>,
               <<constraint.factTypeId>>, <<>>)>>
      ELSE <<>>)
     \o
     (IF constraint.max # <<>> /\ count > constraint.max[1]
      THEN <<Violation(constraint.id, "Frequency",
               <<"FREQUENCY_MAX_VIOLATION", constraint.name, constraint.max[1], count>>,
               <<constraint.factTypeId>>, <<>>)>>
      ELSE <<>>)

\* ConstraintValidator.validateFrequencyConstraints
validateFrequencyConstraints(sch, pop) ==
  FlatMap(LAMBDA c : FrequencyViolations(c, pop), sch.frequencyConstraints)

\* a validator that compares with the first allowed value only
EnumerationViolations_firstAllowed(constraint, pop) ==
  IF ~MapHas(pop.objectPopulations, constraint.labelTypeId) THEN <<>>
  ELSE FlatMap(LAMBDA instance :
                 IF instance # constraint.allowedValues[1]
                 THEN <<Violation(constraint.id, "Enumeration",
                          <<"ENUMERATION_VIOLATION", constraint.name>>,
                          <<constraint.labelTypeId>>, <<>>)>>
                 ELSE <<>>,
               MapGet(pop.objectPopulations, constraint.labelTypeId).instances)

\* the violations of one enumeration constraint
EnumerationViolations(constraint, pop) ==
  IF ~MapHas(pop.objectPopulations, constraint.labelTypeId) THEN <<>>
  ELSE FlatMap(LAMBDA instance :
                 IF instance \notin Range(constraint.allowedValues)
                 THEN <<Violation(constraint.id, "Enumeration",
                          <<"ENUMERATION_VIOLATION", constraint.name>>,
                          <<constraint.labelTypeId>>, <<>>)>>
                 ELSE <<>>,
               MapGet(pop.objectPopulations, constraint.labelTypeId).instances)

\* ConstraintValidator.validateEnumerationConstraints
validateEnumerationConstraints(sch, pop) ==
  FlatMap(LAMBDA c : EnumerationViolations(c, pop), sch.enumerationConstraints)

\* createNoEmptyConstraint(entityId).constraintFunction (validation.ts)
noEmpty(entityId, pop) ==
  LET violations ==
        IF \/ ~MapHas(pop.objectPopulations, entityId)
           \/ Len(MapGet(pop.objectPopulations, entityId).instances) = 0
        THEN <<[constraintId |-> "no_empty_" \o entityId,
                constraintType |-> "Custom",
                severity |-> "Error",
                message |-> <<"NO_EMPTY", entityId>>,
                affectedObjects |-> <<entityId>>,
                affectedFacts |-> <<>>]>>
        ELSE <<>>
  IN [isValid |-> Len(violations) = 0, violations |-> violations]

\* a function a user stores in a custom constraint: it reports a finding of
\* severity 'Warning' for every fact population and flags the result as not
\* valid
warnPopulated(constraintId, pop) ==
  [isValid |-> FALSE,
   violations |->
     [i \in DOMAIN pop.factPopulations |->
        [constraintId |-> constraintId,
         constraintType |-> "Custom",
         severity |-> "Warning",
         message |-> <<"POPULATED", pop.factPopulations[i].id>>,
         affectedObjects |-> <<pop.factPopulations[i].id>>,
         affectedFacts |-> <<>>]]]

\* constraint.constraintFunction(schema, population)
constraintFunction(constraint, sch, pop) ==
  IF constraint.function = "noEmpty"
  THEN noEmpty(constraint.appliesTo[1], pop)
  ELSE warnPopulated(constraint.id, pop)

\* a validator that runs the custom constraints last-stored first
validateCustomConstraints_reversed(sch, pop) ==
  FlatMap(LAMBDA c : constraintFunction(c, sch, pop).violations,
          [i \in DOMAIN sch.customConstraints |->
             sch.customConstraints[Len(sch.customConstraints) - i + 1]])

\* ConstraintValidator.validateCustomConstraints
validateCustomConstraints(sch, pop) ==
  FlatMap(LAMBDA c : constraintFunction(c, sch, pop).violations,
          sch.customConstraints)

\* a validator for which a violation of any severity invalidates
validate_anySeverity(sch, pop) ==
  LET violations ==
        validateUniquenessConstraints(sch, pop)
        \o validateTotalRoleConstraints(sch, pop)
        \o validateSetConstraints(sch, pop)
        \o validateCardinalityConstraints(sch, pop)
        \o validateFrequencyConstraints(sch, pop)
        \o validateEnumerationConstraints(sch, pop)
        \o validateCustomConstraints(sch, pop)
  IN [isValid |-> Len(violations) = 0,
      violations |-> violations]

\* ConstraintValidator.validate
validate(sch, pop) ==
  LET violations ==
        validateUniquenessConstraints(sch, pop)
        \o validateTotalRoleConstraints(sch, pop)
        \o validateSetConstraints(sch, pop)
        \o validateCardinalityConstraints(sch, pop)
        \o validateFrequencyConstraints(sch, pop)
        \o validateEnumerationConstraints(sch, pop)
        \o validateCustomConstraints(sch, pop)
  IN [isValid |-> Len(SelectSeq(violations, LAMBDA v : v.severity = "Error")) = 0,
      violations |-> violations]


(***************************************************************************)
(* A schema is edited in graphStore (pc = "edit"), which starts from an    *)
(* empty schema, or built by SchemaConverter from a canvas (pc =           *)
(* "convert"), and may be loaded from there into graphStore.  Either way   *)
(* it can be exported (pc = "generated").                                  *)
(***************************************************************************)
\* createInitialState (graph-store.ts)
Init ==
  /\ schema = EmptySchema
  /\ population = EmptyPopulation
  /\ pc = "edit"
  /\ dialect = "PostgreSQL"
  /\ sqlSchema = NoSQL
  /\ ddl = <<>>
  /\ validation = NoValidation
  /\ canvasState = EmptyCanvas
  /\ returned = <<>>
  /\ NoHistory

\* SchemaConverter.convertToInformationSchema: the schema it starts from
InitConv ==
  /\ schema = EmptySchema
  /\ population = EmptyPopulation
  /\ pc = "convert"
  /\ dialect = "PostgreSQL"
  /\ sqlSchema = NoSQL
  /\ ddl = <<>>
  /\ validation = NoValidation
  /\ canvasState = EmptyCanvas
  /\ returned = <<>>
  /\ NoHistory

\* schema.entities.set(id, entity); schema.objects.set(id, entity): both maps
\* hold the same object
SetEntity(sch, entity) ==
  [sch EXCEPT !.entities = MapSet(@, entity), !.objects = MapSet(@, entity)]

SetLabelType(sch, labelType) ==
  [sch EXCEPT !.labelTypes = MapSet(@, labelType), !.objects = MapSet(@, labelType)]

RECURSIVE SetAll(_, _)
\* for (const predicator of predicators) predicators.set(predicator.id, predicator)
SetAll(m, recs) ==
  IF recs = <<>> THEN m ELSE SetAll(MapSet(m, Head(recs)), Tail(recs))

SetFactType(sch, factType, predicators) ==
  [sch EXCEPT !.factTypes = MapSet(@, factType),
              !.predicators = SetAll(@, predicators)]

\* the objects the roles of a new fact type are based on: the objects of the
\* schema taken round-robin, starting at any of them
RoleAssignments(arity) ==
  {[k \in 1..arity |->
      schema.objects[((k - 1 + shift) % Len(schema.objects)) + 1].id] :
     shift \in 0..(Len(schema.objects) - 1)}

\* the predicators of a new fact type
NewPredicators(fid, objectIds, scheme, optional) ==
  [k \in DOMAIN objectIds |->
     [id |-> PredicatorId(Len(schema.predicators) + k),
      name |-> PredicatorName(scheme, k - 1),
      factTypeId |-> fid,
      position |-> k - 1,
      objectId |-> objectIds[k],
      isOptional |-> optional]]

NewFactType(fid, predicators, objectified) ==
  [id |-> fid,
   name |-> FactTypeName(Len(schema.factTypes) + 1),
   predicators |-> [k \in DOMAIN predicators |-> predicators[k].id],
   isUnary |-> (Len(predicators) = 1),
   isObjectified |-> objectified,
   objectifiedAsId |-> IF objectified THEN "o" \o fid ELSE "",
   arity |-> Len(predicators)]

\* the predicator lists a new uniqueness constraint is created with: one
\* role, or the first two roles of a fact type
UniquePredicatorLists ==
  {<<schema.predicators[i].id>> : i \in DOMAIN schema.predicators}
  \cup {SubSeq(schema.factTypes[i].predicators, 1, 2) :
          i \in {j \in DOMAIN schema.factTypes : schema.factTypes[j].arity >= 2}}

\* the first id of the pool that is not in use
FreshUniqueId ==
  UniqueId(CHOOSE i \in 1..MaxUniqueConstraints :
             /\ ~MapHas(schema.uniqueConstraints, UniqueId(i))
             /\ \A j \in 1..(i-1) : MapHas(schema.uniqueConstraints, UniqueId(j)))

(***************************************************************************)
(* SchemaConverter (schema-converter.ts): one step per converted element.  *)
(* convertToInformationSchema runs convertNodes, then convertEdges, then   *)
(* convertConstraints: a node is converted before every edge, an edge      *)
(* before every constraint.                                                *)
(***************************************************************************)
\* convertEdges has not converted an edge yet
NoEdgeConverted ==
  /\ schema.factTypes = <<>>
  /\ \A i \in DOMAIN schema.entities : schema.entities[i].specializationOf = <<>>

\* convertConstraints has not converted a constraint yet
NoConstraintConverted ==
  /\ schema.uniqueConstraints = <<>>
  /\ schema.enumerationConstraints = <<>>

\* convertNodes, case 'entity'
ConvertEntityNode ==
  /\ pc = "convert"
  /\ NoEdgeConverted /\ NoConstraintConverted
  /\ Len(schema.entities) < MaxEntities
  /\ Len(schema.objects) < MaxObjects
  /\ schema' = SetEntity(schema,
                 [id |-> EntityId(Len(schema.entities) + 1),
                  name |-> EntityName(Len(schema.entities) + 1),
                  kind |-> "Entity",
                  dataType |-> "",
                  identifiers |-> <<>>,
                  specializationOf |-> <<>>])
  /\ UNCHANGED <<population, pc, dialect, sqlSchema, ddl, validation, canvasState, returned, storeVars>>

\* convertNodes, case 'labelType'
ConvertLabelNode ==
  /\ pc = "convert"
  /\ NoEdgeConverted /\ NoConstraintConverted
  /\ Len(schema.labelTypes) < MaxLabels
  /\ Len(schema.objects) < MaxObjects
  /\ \E dataType \in LabelDataTypes :
       schema' = SetLabelType(schema,
                   [id |-> LabelId(Len(schema.labelTypes) + 1),
                    name |-> LabelName(Len(schema.labelTypes) + 1),
                    kind |-> "Label",
                    dataType |-> dataType,
                    identifiers |-> <<>>,
                    specializationOf |-> <<>>])
  /\ UNCHANGED <<population, pc, dialect, sqlSchema, ddl, validation, canvasState, returned, storeVars>>

\* convertNodes, case 'factType', with convertEdges for its predicator edges:
\* the fact type is never objectified and its roles are optional
ConvertFactType ==
  /\ pc = "convert"
  /\ NoConstraintConverted
  /\ Len(schema.factTypes) < Cardinality(FactTypeIds)
  /\ \E arity \in 1..MaxArity :
     \E objectIds \in RoleAssignments(arity), scheme \in PredicatorNameSchemes :
       LET fid == FactTypeId(Len(schema.factTypes) + 1)
           predicators == NewPredicators(fid, objectIds, scheme, TRUE)
       IN schema' = SetFactType(schema, NewFactType(fid, predicators, FALSE), predicators)
  /\ UNCHANGED <<population, pc, dialect, sqlSchema, ddl, validation, canvasState, returned, storeVars>>

\* convertEdges, case 'specialization': the target is any node
ConvertSpecializationEdge ==
  /\ pc = "convert"
  /\ NoConstraintConverted
  /\ \E i \in DOMAIN schema.entities, j \in DOMAIN schema.objects :
       LET subtype == schema.entities[i] IN
       /\ Len(subtype.specializationOf) < MaxParents
       /\ schema.objects[j].id # subtype.id
       /\ schema' = SetEntity(schema,
                      [subtype EXCEPT !.specializationOf = Append(@, schema.objects[j].id)])
  /\ UNCHANGED <<population, pc, dialect, sqlSchema, ddl, validation, canvasState, returned, storeVars>>

\* convertConstraints, case 'uniqueness': the constraint also becomes an
\* identifier of the entity of its first predicator, the primary one if it
\* is that entity's first identifier
convertUniqueness(constraintId, predicatorIds) ==
  LET firstPred == MapGet(schema.predicators, predicatorIds[1])
      identifies == /\ Len(predicatorIds) > 0
                    /\ MapHas(schema.predicators, predicatorIds[1])
                    /\ MapHas(schema.entities, firstPred.objectId)
      entity == MapGet(schema.entities, firstPred.objectId)
      uniqueConstraint ==
        [id |-> constraintId,
         name |-> <<"U","C">>,
         predicatorIds |-> predicatorIds,
         isPrimary |-> identifies /\ Len(entity.identifiers) = 0]
      withConstraint ==
        [schema EXCEPT !.uniqueConstraints = MapSet(@, uniqueConstraint)]
  IN IF identifies
     THEN SetEntity(withConstraint,
            [entity EXCEPT !.identifiers = Append(@, uniqueConstraint)])
     ELSE withConstraint

ConvertUniqueness ==
  /\ pc = "convert"
  /\ Len(schema.uniqueConstraints) < MaxUniqueConstraints
  /\ \E predicatorIds \in UniquePredicatorLists :
       schema' = convertUniqueness(FreshUniqueId, predicatorIds)
  /\ UNCHANGED <<population, pc, dialect, sqlSchema, ddl, validation, canvasState, returned, storeVars>>

\* convertConstraints, case 'enumeration'
ConvertEnumeration ==
  /\ pc = "convert"
  /\ Len(schema.enumerationConstraints) < MaxEnumerations
  /\ \E i \in DOMAIN schema.labelTypes, allowedValues \in AllowedValueLists :
       schema' = [schema EXCEPT !.enumerationConstraints =
                    MapSet(@, [id |-> EnumId(Len(schema.enumerationConstraints) + 1),
                               name |-> <<"E","n">>,
                               labelTypeId |-> schema.labelTypes[i].id,
                               allowedValues |-> allowedValues])]
  /\ UNCHANGED <<population, pc, dialect, sqlSchema, ddl, validation, canvasState, returned, storeVars>>

(***************************************************************************)
(* graphStore: schema editing (stores/graph-store.ts)                      *)
(***************************************************************************)
\* graphStore.loadSchema: the schema replaces the store's, with an empty
\* population
LoadSchema ==
  /\ pc = "convert"
  /\ pc' = "edit"
  /\ population' = EmptyPopulation
  /\ validation' = validate(schema, EmptyPopulation)
  /\ UNCHANGED <<schema, dialect, sqlSchema, ddl, canvasState, returned, storeVars>>

\* an update of graphStore; validationStore, derived from it, follows
StoreUpdate(newSchema, newPopulation) ==
  /\ pc = "edit"
  /\ schema' = newSchema
  /\ population' = newPopulation
  /\ validation' = validate(newSchema, newPopulation)
  /\ UNCHANGED <<pc, dialect, sqlSchema, ddl, canvasState, returned, storeVars>>

\* graphStore.addEntity
addEntity(entity) == StoreUpdate(SetEntity(schema, entity), population)

\* createEntity (utils.ts): one primary identifier without predicators
createEntity(id, name) ==
  [id |-> id,
   name |-> name,
   kind |-> "Entity",
   dataType |-> "",
   identifiers |-> <<[id |-> "k" \o id,
                      name |-> <<"P","K","_">> \o name,
                      predicatorIds |-> <<>>,
                      isPrimary |-> TRUE]>>,
   specializationOf |-> <<>>]

AddEntity ==
  /\ Len(schema.entities) < MaxEntities
  /\ Len(schema.objects) < MaxObjects
  /\ addEntity(createEntity(EntityId(Len(schema.entities) + 1),
                            EntityName(Len(schema.entities) + 1)))

\* graphStore.addLabelType
addLabelType(labelType) ==
  StoreUpdate(SetLabelType(schema, labelType), population)

AddLabelType ==
  /\ Len(schema.labelTypes) < MaxLabels
  /\ Len(schema.objects) < MaxObjects
  /\ \E dataType \in LabelDataTypes :
       addLabelType([id |-> LabelId(Len(schema.labelTypes) + 1),
                     name |-> LabelName(Len(schema.labelTypes) + 1),
                     kind |-> "Label",
                     dataType |-> dataType,
                     identifiers |-> <<>>,
                     specializationOf |-> <<>>])

\* graphStore.addFactType
addFactType(factType, predicators) ==
  StoreUpdate(SetFactType(schema, factType, predicators), population)

\* a fact type as createBinaryFactType / createUnaryFactType (utils.ts) build
\* it, of any arity, possibly marked objectified by the caller
AddFactType ==
  /\ Len(schema.factTypes) < Cardinality(FactTypeIds)
  /\ \E arity \in 1..MaxArity :
     \E objectIds \in RoleAssignments(arity),
        scheme \in PredicatorNameSchemes,
        optional \in RoleOptionality,
        objectified \in BOOLEAN :
       LET fid == FactTypeId(Len(schema.factTypes) + 1)
           predicators == NewPredicators(fid, objectIds, scheme, optional)
       IN addFactType(NewFactType(fid, predicators, objectified), predicators)

\* graphStore.addUniqueConstraint
addUniqueConstraint(constraint) ==
  StoreUpdate([schema EXCEPT !.uniqueConstraints = MapSet(@, constraint)], population)

\* createUniqueConstraint (utils.ts)
AddUniqueConstraint ==
  /\ Len(schema.uniqueConstraints) < MaxUniqueConstraints
  /\ \E predicatorIds \in UniquePredicatorLists :
       addUniqueConstraint(
         [id |-> FreshUniqueId,
          name |-> <<"U","C">>,
          predicatorIds |-> predicatorIds,
          isPrimary |-> FALSE])

\* graphStore.removeConstraint, case 'Uniqueness': the schema afterwards
removeConstraint(sch, constraintId) ==
  [sch EXCEPT !.uniqueConstraints = MapDelete(@, constraintId)]

removeUniqueConstraint(constraintId) ==
  StoreUpdate(removeConstraint(schema, constraintId), population)

RemoveUniqueConstraint ==
  \E i \in DOMAIN schema.uniqueConstraints :
    removeUniqueConstraint(schema.uniqueConstraints[i].id)

\* exportToSQL(schema, dialect): generateSchema, then generateDDL
GenerateSQL ==
  /\ pc \in {"convert", "edit"}
  /\ \E d \in SQLDialect :
       /\ dialect' = d
       /\ sqlSchema' = generateSchema(d, schema)
       /\ ddl' = generateDDL(sqlSchema')
  /\ pc' = "generated"
  /\ UNCHANGED <<schema, population, validation, canvasState, returned, storeVars>>

\* graphStore edited and exported
Next ==
  \/ AddEntity
  \/ AddLabelType
  \/ AddFactType
  \/ AddUniqueConstraint
  \/ RemoveUniqueConstraint
  \/ GenerateSQL

Spec == Init /\ [][Next]_vars

\* a canvas converted and exported
NextConv ==
  \/ ConvertEntityNode
  \/ ConvertLabelNode
  \/ ConvertFactType
  \/ ConvertSpecializationEdge
  \/ ConvertUniqueness
  \/ ConvertEnumeration
  \/ GenerateSQL

SpecConv == InitConv /\ [][NextConv]_vars

(***************************************************************************)
(* Validation: a converted schema with one entity, one label and a binary  *)
(* fact type between them gets its constraints from the converter, is      *)
(* loaded into graphStore, populated and edited; validationStore shows     *)
(* ConstraintValidator.validate of the store's schema and population.      *)
(***************************************************************************)
MaxConstraints == 1
MaxInstances == 2
MaxTuples == 2

ACTIVE == [type |-> "string", text |-> <<"a","c","t","i","v","e">>]
SUSPENDED == [type |-> "string", text |-> <<"s","u","s","p","e","n","d","e","d">>]

INACTIVE == [type |-> "string", text |-> <<"i","n","a","c","t","i","v","e">>]

\* the role values of the tuples
Instances == {ACTIVE, SUSPENDED}

\* the instances of the object populations: one of them is a role value
ObjectInstances == {SUSPENDED, INACTIVE}

\* the schema after convertNodes and convertEdges
ConvertedSchema ==
  LET entity == [id |-> EntityId(1), name |-> EntityName(1), kind |-> "Entity",
                 dataType |-> "", identifiers |-> <<>>, specializationOf |-> <<>>]
      labelType == [id |-> LabelId(1), name |-> LabelName(1), kind |-> "Label",
                    dataType |-> "String", identifiers |-> <<>>,
                    specializationOf |-> <<>>]
      predicators ==
        [k \in 1..2 |->
           [id |-> PredicatorId(k),
            name |-> PredicatorName("byPosition", k - 1),
            factTypeId |-> FactTypeId(1),
            position |-> k - 1,
            objectId |-> IF k = 1 THEN entity.id ELSE labelType.id,
            isOptional |-> TRUE]]
      factType == [id |-> FactTypeId(1), name |-> FactTypeName(1),
                   predicators |-> <<PredicatorId(1), PredicatorId(2)>>,
                   isUnary |-> FALSE, isObjectified |-> FALSE,
                   objectifiedAsId |-> "", arity |-> 2]
  IN SetFactType(SetLabelType(SetEntity(EmptySchema, entity), labelType),
                 factType, predicators)

InitVal ==
  /\ schema = ConvertedSchema
  /\ population = EmptyPopulation
  /\ pc = "convert"
  /\ dialect = "PostgreSQL"
  /\ sqlSchema = NoSQL
  /\ ddl = <<>>
  /\ validation = NoValidation
  /\ canvasState = EmptyCanvas
  /\ returned = <<>>
  /\ NoHistory

\* the number of constraints of a schema
ConstraintCount(sch) ==
  Len(sch.uniqueConstraints) + Len(sch.totalRoleConstraints)
  + Len(sch.setConstraints) + Len(sch.cardinalityConstraints)
  + Len(sch.frequencyConstraints) + Len(sch.enumerationConstraints)

\* `constraint.appliesTo[0] || ''`: a role of the schema, or '' when the
\* canvas constraint applies to nothing
AppliedPredicatorIds ==
  {schema.predicators[i].id : i \in DOMAIN schema.predicators} \cup {""}

AppliedFactTypeIds ==
  {schema.factTypes[i].id : i \in DOMAIN schema.factTypes} \cup {""}

ValConvertUniqueness ==
  ConstraintCount(schema) < MaxConstraints /\ ConvertUniqueness

\* convertConstraints, case 'mandatory'
ConvertMandatory ==
  /\ pc = "convert"
  /\ ConstraintCount(schema) < MaxConstraints
  /\ \E i \in DOMAIN schema.predicators :
       LET predicator == schema.predicators[i] IN
       schema' = [schema EXCEPT
         !.predicators = MapSet(@, [predicator EXCEPT !.isOptional = FALSE]),
         !.totalRoleConstraints =
            MapSet(@, [id |-> "t" \o ToString(Len(schema.totalRoleConstraints) + 1),
                       name |-> <<"T","R">>,
                       predicatorId |-> predicator.id,
                       objectId |-> predicator.objectId])]
  /\ UNCHANGED <<population, pc, dialect, sqlSchema, ddl, validation, canvasState, returned, storeVars>>

SetConstraintTypes == {"Subset", "Equality", "Exclusion"}

\* predicatorIds of a canvas set constraint: the two roles, or a role and
\* an id that is no role of the schema
SetPredicatorLists ==
  {<<PredicatorId(1), PredicatorId(2)>>, <<PredicatorId(1), "">>}

\* convertConstraints, cases 'subset', 'equality', 'exclusion'
ConvertSetConstraint ==
  /\ pc = "convert"
  /\ ConstraintCount(schema) < MaxConstraints
  /\ \E type \in SetConstraintTypes, predicatorIds \in SetPredicatorLists :
       schema' = [schema EXCEPT !.setConstraints =
         MapSet(@, [id |-> "s" \o ToString(Len(schema.setConstraints) + 1),
                    name |-> <<"S","C">>,
                    type |-> type,
                    sourcePredicatorIds |->
                      SubSeq(predicatorIds, 1, Len(predicatorIds) \div 2),
                    targetPredicatorIds |->
                      SubSeq(predicatorIds, (Len(predicatorIds) \div 2) + 1,
                             Len(predicatorIds))])]
  /\ UNCHANGED <<population, pc, dialect, sqlSchema, ddl, validation, canvasState, returned, storeVars>>

\* parameters.n of 'atLeast' and parameters.m of 'limit'
AtLeastParameters == {2}
LimitParameters == {1}

\* convertConstraints, cases 'atLeast', 'limit'
ConvertCardinality ==
  /\ pc = "convert"
  /\ ConstraintCount(schema) < MaxConstraints
  /\ \E predicatorId \in AppliedPredicatorIds,
        bounds \in {[min |-> <<n>>, max |-> <<>>] : n \in AtLeastParameters}
                   \cup {[min |-> <<>>, max |-> <<m>>] : m \in LimitParameters} :
       schema' = [schema EXCEPT !.cardinalityConstraints =
         MapSet(@, [id |-> "k" \o ToString(Len(schema.cardinalityConstraints) + 1),
                    name |-> <<"C","C">>,
                    predicatorId |-> predicatorId,
                    min |-> bounds.min,
                    max |-> bounds.max])]
  /\ UNCHANGED <<population, pc, dialect, sqlSchema, ddl, validation, canvasState, returned, storeVars>>

\* parameters.min and parameters.max ('infinity' gives undefined)
FrequencyParameters ==
  {[min |-> <<1>>, max |-> <<>>], [min |-> <<>>, max |-> <<1>>],
   [min |-> <<2>>, max |-> <<1>>]}

\* convertConstraints, case 'frequency'
ConvertFrequency ==
  /\ pc = "convert"
  /\ ConstraintCount(schema) < MaxConstraints
  /\ \E factTypeId \in AppliedFactTypeIds, bounds \in FrequencyParameters :
       schema' = [schema EXCEPT !.frequencyConstraints =
         MapSet(@, [id |-> "q" \o ToString(Len(schema.frequencyConstraints) + 1),
                    name |-> <<"F","C">>,
                    factTypeId |-> factTypeId,
                    min |-> bounds.min,
                    max |-> bounds.max])]
  /\ UNCHANGED <<population, pc, dialect, sqlSchema, ddl, validation, canvasState, returned, storeVars>>

ValConvertEnumeration ==
  ConstraintCount(schema) < MaxConstraints /\ ConvertEnumeration

\* graphStore.addObjectInstance: instances is a Set
addObjectInstance(objectId, instance) ==
  LET pops == population.objectPopulations
      pop == IF MapHas(pops, objectId) THEN MapGet(pops, objectId)
             ELSE [id |-> objectId, instances |-> <<>>]
      added == IF instance \in Range(pop.instances) THEN pop
               ELSE [pop EXCEPT !.instances = Append(@, instance)]
  IN StoreUpdate(schema, [population EXCEPT !.objectPopulations = MapSet(@, added)])

AddObjectInstance ==
  \E i \in DOMAIN ConvertedSchema.objects, instance \in ObjectInstances :
    LET objectId == ConvertedSchema.objects[i].id IN
    /\ MapHas(population.objectPopulations, objectId) =>
         Len(MapGet(population.objectPopulations, objectId).instances) < MaxInstances
    /\ addObjectInstance(objectId, instance)

\* graphStore.addFactTuple
addFactTuple(factTypeId, tuple) ==
  LET pops == population.factPopulations
      pop == IF MapHas(pops, factTypeId) THEN MapGet(pops, factTypeId)
             ELSE [id |-> factTypeId, tuples |-> <<>>]
  IN StoreUpdate(schema,
       [population EXCEPT !.factPopulations =
          MapSet(@, [pop EXCEPT !.tuples = Append(@, tuple)])])

\* the tuples of the fact type: a value for each of its roles
Tuples == [{PredicatorId(1), PredicatorId(2)} -> Instances]

AddFactTuple ==
  \E tuple \in Tuples :
    /\ MapHas(population.factPopulations, FactTypeId(1)) =>
         Len(MapGet(population.factPopulations, FactTypeId(1)).tuples) < MaxTuples
    /\ addFactTuple(FactTypeId(1), tuple)

RECURSIVE DeleteAll(_, _)
\* for (const id of ids) map.delete(id)
DeleteAll(m, ids) ==
  IF ids = <<>> THEN m ELSE DeleteAll(MapDelete(m, Head(ids)), Tail(ids))

\* graphStore.removeFactType: constraints and populations are left alone
removeFactType(factTypeId) ==
  IF ~MapHas(schema.factTypes, factTypeId)
  THEN StoreUpdate(schema, population)
  ELSE StoreUpdate(
         [schema EXCEPT
            !.predicators = DeleteAll(@, MapGet(schema.factTypes, factTypeId).predicators),
            !.factTypes = MapDelete(@, factTypeId)],
         population)

RemoveFactType ==
  \E i \in DOMAIN schema.factTypes : removeFactType(schema.factTypes[i].id)

\* graphStore.removeNode: every connected edge is deleted from state.edges
\* before it is read back to find its predicator, and after loadSchema the
\* store has no edges at all, so no predicator is deleted
removeNode(nodeId) ==
  StoreUpdate([schema EXCEPT !.entities = MapDelete(@, nodeId),
                             !.labelTypes = MapDelete(@, nodeId),
                             !.objects = MapDelete(@, nodeId)],
              population)

RemoveNode ==
  \E i \in DOMAIN schema.objects : removeNode(schema.objects[i].id)

NextVal ==
  \/ ValConvertUniqueness
  \/ ConvertMandatory
  \/ ConvertSetConstraint
  \/ ConvertCardinality
  \/ ConvertFrequency
  \/ ValConvertEnumeration
  \/ LoadSchema
  \/ AddObjectInstance
  \/ AddFactTuple
  \/ RemoveFactType
  \/ RemoveNode

SpecVal == InitVal /\ [][NextVal]_vars

(***************************************************************************)
(* Validation of populations: graphStore holds a schema with one           *)
(* constraint of every built-in kind on the fact type of ConvertedSchema,  *)
(* built with the create...Constraint helpers of utils.ts; custom          *)
(* constraints are added and the population is filled in and cleared.      *)
(***************************************************************************)
\* the parameters the constraints are created with: the constrained roles,
\* the kind of set constraint and the bounds
ConstraintParameters ==
  { [unique |-> <<PredicatorId(1)>>, mandatory |-> PredicatorId(1),
     setType |-> "Subset", counted |-> PredicatorId(1),
     cardinality |-> [min |-> <<2>>, max |-> <<>>],
     frequency |-> [min |-> <<1>>, max |-> <<>>]],
    [unique |-> <<PredicatorId(1), PredicatorId(2)>>, mandatory |-> PredicatorId(2),
     setType |-> "Equality", counted |-> PredicatorId(2),
     cardinality |-> [min |-> <<>>, max |-> <<1>>],
     frequency |-> [min |-> <<>>, max |-> <<1>>]],
    [unique |-> <<PredicatorId(2)>>, mandatory |-> PredicatorId(1),
     setType |-> "Exclusion", counted |-> PredicatorId(1),
     cardinality |-> [min |-> <<3>>, max |-> <<1>>],
     frequency |-> [min |-> <<3>>, max |-> <<1>>]] }

\* ConvertedSchema with one constraint of every built-in kind
ConstrainedSchema(parameters) ==
  [ConvertedSchema EXCEPT
     !.uniqueConstraints =
        <<[id |-> UniqueId(1), name |-> <<"U","C">>,
           predicatorIds |-> parameters.unique, isPrimary |-> FALSE]>>,
     !.totalRoleConstraints =
        <<[id |-> "t1", name |-> <<"T","R">>,
           predicatorId |-> parameters.mandatory,
           objectId |-> MapGet(ConvertedSchema.predicators,
                               parameters.mandatory).objectId]>>,
     !.setConstraints =
        <<[id |-> "s1", name |-> <<"S","C">>, type |-> parameters.setType,
           sourcePredicatorIds |-> <<PredicatorId(1)>>,
           targetPredicatorIds |-> <<PredicatorId(2)>>]>>,
     !.cardinalityConstraints =
        <<[id |-> "k1", name |-> <<"C","C">>,
           predicatorId |-> parameters.counted,
           min |-> parameters.cardinality.min,
           max |-> parameters.cardinality.max]>>,
     !.frequencyConstraints =
        <<[id |-> "q1", name |-> <<"F","C">>, factTypeId |-> FactTypeId(1),
           min |-> parameters.frequency.min,
           max |-> parameters.frequency.max]>>,
     !.enumerationConstraints =
        <<[id |-> EnumId(1), name |-> <<"E","n">>, labelTypeId |-> LabelId(1),
           allowedValues |-> CHOOSE allowedValues \in AllowedValueLists : TRUE]>>]

\* graphStore after loadSchema of such a schema
InitPop ==
  /\ schema \in {ConstrainedSchema(parameters) : parameters \in ConstraintParameters}
  /\ population = EmptyPopulation
  /\ pc = "edit"
  /\ dialect = "PostgreSQL"
  /\ sqlSchema = NoSQL
  /\ ddl = <<>>
  /\ validation = validate(schema, EmptyPopulation)
  /\ canvasState = EmptyCanvas
  /\ returned = <<>>
  /\ NoHistory

\* createNoEmptyConstraint(entityId) (validation.ts)
createNoEmptyConstraint(entityId) ==
  [id |-> "no_empty_" \o entityId,
   name |-> <<"N","E">>,
   function |-> "noEmpty",
   appliesTo |-> <<entityId>>]

\* the custom constraints a user adds: createNoEmptyConstraint of the
\* entity, and one with a function of the user's own
CustomConstraints ==
  {createNoEmptyConstraint(EntityId(1)),
   [id |-> "w1", name |-> <<"W">>, function |-> "warnPopulated", appliesTo |-> <<>>]}

\* graphStore.addCustomConstraint
addCustomConstraint(constraint) ==
  StoreUpdate([schema EXCEPT !.customConstraints = MapSet(@, constraint)], population)

AddCustomConstraint ==
  \E constraint \in CustomConstraints : addCustomConstraint(constraint)

\* graphStore.clearPopulation
clearPopulation == StoreUpdate(schema, EmptyPopulation)

ClearPopulation == clearPopulation

NextPop ==
  \/ AddCustomConstraint
  \/ AddObjectInstance
  \/ AddFactTuple
  \/ ClearPopulation

SpecPop == InitPop /\ [][NextPop]_vars

(***************************************************************************)
(* Properties of the SQL generator, read off the state after GenerateSQL   *)
(***************************************************************************)
Generated == pc = "generated"

\* index in sql.tables of the table generated from a schema element, 0 if none
TableIndex(sql, kind, id) ==
  FindIndex(sql.sources, LAMBDA s : s.kind = kind /\ s.id = id)

\* predicatorId is the only predicator of some uniqueness constraint
SolePredicatorOfUnique(predicatorId, sch) ==
  \E i \in DOMAIN sch.uniqueConstraints :
    sch.uniqueConstraints[i].predicatorIds = <<predicatorId>>

\* F is a non-objectified binary fact type between two entities whose role b
\* is the only one that is the sole predicator of a uniqueness constraint
FunctionalBetweenEntities(F, a, b) ==
  /\ a # b
  /\ F.arity = 2 /\ Len(F.predicators) = 2
  /\ ~F.isObjectified
  /\ MapHas(schema.predicators, F.predicators[a])
  /\ MapHas(schema.predicators, F.predicators[b])
  /\ MapHas(schema.entities, MapGet(schema.predicators, F.predicators[a]).objectId)
  /\ MapHas(schema.entities, MapGet(schema.predicators, F.predicators[b]).objectId)
  /\ SolePredicatorOfUnique(F.predicators[b], schema)
  /\ ~SolePredicatorOfUnique(F.predicators[a], schema)

\* C1 as stated: for a non-objectified binary fact type between entities A
\* and B whose B-side role alone is the sole predicator of a uniqueness
\* constraint, the foreign-key column is on A's table and references B's
\* table, and there is no junction table for the fact type.
C1_ColumnOnOtherEntity ==
  Generated =>
    \A i \in DOMAIN schema.factTypes : \A a, b \in 1..2 :
      LET F == schema.factTypes[i] IN
      FunctionalBetweenEntities(F, a, b) =>
        LET pa == MapGet(schema.predicators, F.predicators[a])
            pb == MapGet(schema.predicators, F.predicators[b])
            tA == TableIndex(sqlSchema, "entity", pa.objectId)
            nameB == sanitizeName(MapGet(schema.entities, pb.objectId).name)
        IN /\ tA # 0
           /\ \E c \in Range(sqlSchema.tables[tA].columns) :
                c.references = <<[table |-> nameB, column |-> ID]>>
           /\ TableIndex(sqlSchema, "junction", F.id) = 0

\* C1 amended: in that case the foreign-key column is on the table of B, the
\* entity of the role that carries the uniqueness constraint; it is named
\* after the other role (A's), references A's table and has a foreign key;
\* there is no junction table for the fact type.
C1_ColumnOnConstrainedEntity ==
  Generated =>
    \A i \in DOMAIN schema.factTypes : \A a, b \in 1..2 :
      LET F == schema.factTypes[i] IN
      FunctionalBetweenEntities(F, a, b) =>
        LET pa == MapGet(schema.predicators, F.predicators[a])
            pb == MapGet(schema.predicators, F.predicators[b])
            tB == TableIndex(sqlSchema, "entity", pb.objectId)
            nameA == sanitizeName(MapGet(schema.entities, pa.objectId).name)
        IN /\ tB # 0
           /\ \E c \in Range(sqlSchema.tables[tB].columns) :
                /\ c.name = sanitizeName(pa.name)
                /\ c.references = <<[table |-> nameA, column |-> ID]>>
                /\ \E fk \in Range(sqlSchema.tables[tB].foreignKeys) :
                     /\ fk.columns = <<c.name>>
                     /\ fk.referencedTable = nameA
                     /\ fk.referencedColumns = <<ID>>
           /\ TableIndex(sqlSchema, "junction", F.id) = 0

\* a functional binary fact type between two different entities was exported
C1_Witness ==
  /\ Generated
  /\ \E i \in DOMAIN schema.factTypes : \E a, b \in 1..2 :
       /\ FunctionalBetweenEntities(schema.factTypes[i], a, b)
       /\ MapGet(schema.predicators, schema.factTypes[i].predicators[a]).objectId
            # MapGet(schema.predicators, schema.factTypes[i].predicators[b]).objectId
       /\ TableIndex(sqlSchema, "junction", schema.factTypes[i].id) = 0

\* the single-predicator uniqueness constraints on roles of F
SoleUniquesOf(F, sch) ==
  {i \in DOMAIN sch.uniqueConstraints :
     /\ Len(sch.uniqueConstraints[i].predicatorIds) = 1
     /\ sch.uniqueConstraints[i].predicatorIds[1] \in Range(F.predicators)}

\* C2: a non-objectified, non-unary fact type F gets a junction table iff its
\* arity exceeds 2 or none of its roles is the only predicator of a
\* uniqueness constraint; removing the only such constraint of a binary fact
\* type makes the next export emit a junction table for it.
C2_JunctionIff ==
  Generated =>
    \A i \in DOMAIN schema.factTypes :
      LET F == schema.factTypes[i] IN
      (~F.isObjectified /\ ~F.isUnary) =>
        /\ (TableIndex(sqlSchema, "junction", F.id) # 0)
             <=> (\/ F.arity > 2
                  \/ ~ \E k \in DOMAIN F.predicators :
                         SolePredicatorOfUnique(F.predicators[k], schema))
        /\ (F.arity = 2 /\ Cardinality(SoleUniquesOf(F, schema)) = 1) =>
             LET u == CHOOSE j \in SoleUniquesOf(F, schema) : TRUE
                 after == generateSchema(dialect,
                            removeConstraint(schema, schema.uniqueConstraints[u].id))
             IN /\ TableIndex(sqlSchema, "junction", F.id) = 0
                /\ TableIndex(after, "junction", F.id) # 0

\* a binary fact type with one single-predicator uniqueness constraint was
\* exported as a column, and exporting without the constraint gives a junction
C2_Witness ==
  /\ Generated
  /\ \E i \in DOMAIN schema.factTypes :
       LET F == schema.factTypes[i] IN
       /\ ~F.isObjectified /\ F.arity = 2
       /\ Cardinality(SoleUniquesOf(F, schema)) = 1
       /\ TableIndex(sqlSchema, "junction", F.id) = 0


\* the table generated for an entity
EntityTable(entity) ==
  sqlSchema.tables[TableIndex(sqlSchema, "entity", entity.id)]

ColumnNames(table) == {table.columns[k].name : k \in DOMAIN table.columns}

\* C3 as stated: an entity with an identifier flagged primary over at least
\* one predicator has as primaryKey exactly the non-empty list of the columns
\* of those predicators, each NOT NULL; any other entity has the surrogate
\* auto-increment column 'id' first and primaryKey = <<id>>; so every entity
\* table has a non-empty primary key made of columns of the table.
C3_PrimaryKeySelection ==
  Generated =>
    \A i \in DOMAIN schema.entities :
      LET E == schema.entities[i]
          t == EntityTable(E)
          flagged == FindIndex(E.identifiers,
                       LAMBDA c : c.isPrimary /\ Len(c.predicatorIds) >= 1)
      IN /\ IF flagged # 0
            THEN LET keyColumns == getColumnsForConstraint(E.identifiers[flagged], schema)
                 IN /\ Len(keyColumns) > 0
                    /\ t.primaryKey = keyColumns
                    /\ \A k \in DOMAIN keyColumns :
                         \E c \in Range(t.columns) :
                           c.name = keyColumns[k] /\ ~c.isNullable
            ELSE /\ Len(t.columns) >= 1
                 /\ t.columns[1].name = ID
                 /\ t.columns[1].dataType = getAutoIncrementColumn(dialect)
                 /\ t.primaryKey = <<ID>>
         /\ Len(t.primaryKey) > 0
         /\ Range(t.primaryKey) \subseteq ColumnNames(t)

\* C4 as stated: every foreign key of the SQL schema references a table of
\* the SQL schema and columns of that table, and its own columns are columns
\* of the table that declares it.
C4_ForeignKeysResolve ==
  Generated =>
    \A i \in DOMAIN sqlSchema.tables :
      \A fk \in Range(sqlSchema.tables[i].foreignKeys) :
        /\ Range(fk.columns) \subseteq ColumnNames(sqlSchema.tables[i])
        /\ \E j \in DOMAIN sqlSchema.tables :
             /\ sqlSchema.tables[j].name = fk.referencedTable
             /\ Range(fk.referencedColumns) \subseteq ColumnNames(sqlSchema.tables[j])

\* the item lines of a CREATE TABLE statement: all but the first and the last
ItemLines(statement) == SubSeq(statement, 2, Len(statement) - 1)

EndsWithComma(line) == Len(line) > 0 /\ line[Len(line)] = ","

\* C5 as stated: in every CREATE TABLE statement every item line except the
\* last ends with a comma and the last item line does not.
C5_CommaSeparated ==
  Generated =>
    \A i \in DOMAIN sqlSchema.tables :
      LET items == ItemLines(ddl[i])
      IN \A k \in DOMAIN items :
           EndsWithComma(items[k]) <=> (k < Len(items))

\* the allowed values of an enumeration rendered as the spec describes
QuotedValues(allowedValues) ==
  Join([k \in DOMAIN allowedValues |->
          IF allowedValues[k].type = "string"
          THEN <<"'">> \o allowedValues[k].text \o <<"'">>
          ELSE allowedValues[k].text],
       <<", ">>)

\* predicator p of entity E contributes a column that holds values of the
\* label type with id labelTypeId
LabelColumnRole(E, p, labelTypeId) ==
  /\ p.objectId = E.id
  /\ MapHas(schema.factTypes, p.factTypeId)
  /\ LET F == MapGet(schema.factTypes, p.factTypeId)
     IN /\ F.arity = 2 /\ ~F.isUnary
        /\ SolePredicatorOfUnique(p.id, schema)
        /\ \E k \in DOMAIN F.predicators :
             /\ F.predicators[k] # p.id
             /\ MapGet(schema.predicators, F.predicators[k]).objectId = labelTypeId

\* the name of that column
LabelColumnName(p) ==
  sanitizeName(OtherPredicator(MapGet(schema.factTypes, p.factTypeId), p, schema)[1].name)

\* C6 as stated: an entity table with a column derived from a label that is
\* the labelTypeId of an enumeration constraint has one CHECK constraint
\* '<column> IN (v1, v2, ...)' on that column, however roles and label are named.
C6_EnumerationCheck ==
  Generated =>
    \A i \in DOMAIN schema.entities :
      \A n \in DOMAIN schema.enumerationConstraints :
        \A j \in DOMAIN schema.predicators :
          LET E == schema.entities[i]
              enum == schema.enumerationConstraints[n]
              p == schema.predicators[j]
          IN (MapHas(schema.labelTypes, enum.labelTypeId)
                /\ LabelColumnRole(E, p, enum.labelTypeId)) =>
               /\ LabelColumnName(p) \in ColumnNames(EntityTable(E))
               /\ Cardinality({k \in DOMAIN EntityTable(E).checkConstraints :
                      EntityTable(E).checkConstraints[k].expression
                        = LabelColumnName(p) \o <<" IN (">>
                            \o QuotedValues(enum.allowedValues) \o <<")">>}) = 1

\* the specialization foreign keys of a table
ParentForeignKeys(table) ==
  SelectSeq(table.foreignKeys, LAMBDA fk : fk.onDelete = "CASCADE")

\* C7 as stated: every parent of E that resolves gives E's table one foreign
\* key from E's primary-key columns to the parent table's primary-key
\* columns, ON DELETE CASCADE ON UPDATE CASCADE; other parents give none.
C7_SpecializationForeignKey ==
  Generated =>
    \A i \in DOMAIN schema.entities :
      LET E == schema.entities[i]
          resolved == SelectSeq(E.specializationOf,
                                LAMBDA id : MapHas(schema.entities, id))
          fks == ParentForeignKeys(EntityTable(E))
      IN /\ Len(fks) = Len(resolved)
         /\ \A k \in DOMAIN resolved :
              LET P == MapGet(schema.entities, resolved[k])
              IN /\ k \in DOMAIN fks
                 /\ fks[k].columns = EntityTable(E).primaryKey
                 /\ fks[k].referencedTable = sanitizeName(P.name)
                 /\ fks[k].referencedColumns = EntityTable(P).primaryKey
                 /\ fks[k].onDelete = "CASCADE"
                 /\ fks[k].onUpdate = "CASCADE"

\* C9 as stated: a junction table has one column per predicator of its fact
\* type, in order, each NOT NULL, and the composite of all of them as primary
\* key; the columns of the key are pairwise distinct.
C9_JunctionCompositeKey ==
  Generated =>
    \A i \in DOMAIN sqlSchema.tables :
      sqlSchema.sources[i].kind = "junction" =>
        LET F == MapGet(schema.factTypes, sqlSchema.sources[i].id)
            t == sqlSchema.tables[i]
        IN /\ Len(t.columns) = Len(F.predicators)
           /\ \A k \in DOMAIN t.columns :
                /\ t.columns[k].name
                     = sanitizeName(MapGet(schema.predicators, F.predicators[k]).name)
                /\ ~t.columns[k].isNullable
           /\ t.primaryKey = [k \in DOMAIN t.columns |-> t.columns[k].name]
           /\ \A k, m \in DOMAIN t.primaryKey :
                k # m => t.primaryKey[k] # t.primaryKey[m]


\* the schema is one entity with one String label and a binary fact type
\* between them that gives the entity's table a column for the label
OneStringLabelColumn ==
  /\ Len(schema.entities) = 1 /\ Len(schema.labelTypes) = 1
  /\ Len(schema.objects) = 2
  /\ schema.labelTypes[1].dataType = "String"
  /\ Len(schema.factTypes) = 1
  /\ LET F == schema.factTypes[1]
     IN /\ F.arity = 2 /\ ~F.isObjectified
        /\ \E a, b \in 1..2 :
             /\ MapGet(schema.predicators, F.predicators[a]).objectId
                  = schema.entities[1].id
             /\ MapGet(schema.predicators, F.predicators[b]).objectId
                  = schema.labelTypes[1].id
             /\ SolePredicatorOfUnique(F.predicators[a], schema)

\* the label column of that schema: the column that is not the surrogate id
IsLabelColumn(column) == column.name # ID

IsSurrogateColumn(column) == column.name = ID /\ column.isPrimaryKey

\* position of the data type in a column line: indent, name, blank, type
TypePosition(column) == Len(column.name) + 3

\* the DDL text with the data type of the columns satisfying Masked blanked
MaskTypes(text, sql, Masked(_)) ==
  [i \in DOMAIN text |->
     IF i \in DOMAIN sql.tables
     THEN [j \in DOMAIN text[i] |->
             IF /\ (j - 1) \in DOMAIN sql.tables[i].columns
                /\ Masked(sql.tables[i].columns[j - 1])
             THEN [text[i][j] EXCEPT ![TypePosition(sql.tables[i].columns[j - 1])] = "?"]
             ELSE text[i][j]]
     ELSE text[i]]

\* section 6 of the specification: String, and the auto-increment key
StringTypeOf ==
  [d \in SQLDialect |->
     CASE d = "PostgreSQL" -> "VARCHAR(255)" [] d = "MySQL" -> "VARCHAR(255)"
       [] d = "SQLite" -> "TEXT" [] d = "SQL Server" -> "NVARCHAR(255)"]

AutoIncrementOf ==
  [d \in SQLDialect |->
     CASE d = "PostgreSQL" -> "SERIAL" [] d = "MySQL" -> "INT AUTO_INCREMENT"
       [] d = "SQLite" -> "INTEGER" [] d = "SQL Server" -> "INT IDENTITY(1,1)"]

\* every label column of the SQL schema has the String type of dialect d
LabelColumnsTyped(sql, d) ==
  \A i \in DOMAIN sql.tables : \A c \in Range(sql.tables[i].columns) :
    IsLabelColumn(c) => c.dataType = StringTypeOf[d]

\* C8 as stated: for an entity with one String label column the label column
\* has type VARCHAR(255), VARCHAR(255), TEXT, NVARCHAR(255) under PostgreSQL,
\* MySQL, SQLite, SQL Server, and apart from that type the DDL texts of the
\* four dialects are the same.
C8_OnlyLabelTypeDiffers ==
  (Generated /\ OneStringLabelColumn) =>
    \A d \in SQLDialect :
      LET sql == generateSchema(d, schema)
      IN /\ LabelColumnsTyped(sql, d)
         /\ MaskTypes(generateDDL(sql), sql, IsLabelColumn)
              = MaskTypes(ddl, sqlSchema, IsLabelColumn)

\* C8 amended: the label column has those four types, and apart from that
\* type and the type of the surrogate key column 'id' (SERIAL, INT
\* AUTO_INCREMENT, INTEGER, INT IDENTITY(1,1) respectively) the DDL texts of
\* the four dialects are the same.
C8_LabelAndSurrogateTypesDiffer ==
  (Generated /\ OneStringLabelColumn) =>
    \A d \in SQLDialect :
      LET sql == generateSchema(d, schema)
          Either(c) == IsLabelColumn(c) \/ IsSurrogateColumn(c)
      IN /\ LabelColumnsTyped(sql, d)
         /\ \A i \in DOMAIN sql.tables : \A c \in Range(sql.tables[i].columns) :
              IsSurrogateColumn(c) => c.dataType = AutoIncrementOf[d]
         /\ MaskTypes(generateDDL(sql), sql, Either)
              = MaskTypes(ddl, sqlSchema, Either)

\* an entity with a surrogate key and one String label column was exported
\* for SQLite
C8_Witness ==
  /\ Generated /\ OneStringLabelColumn
  /\ dialect = "SQLite"
  /\ Len(sqlSchema.tables) = 1
  /\ Len(sqlSchema.tables[1].columns) = 2
  /\ IsSurrogateColumn(sqlSchema.tables[1].columns[1])
  /\ sqlSchema.tables[1].columns[2].dataType = "TEXT"


(***************************************************************************)
(* Properties of the validator, read off validationStore                   *)
(***************************************************************************)
\* the predicator, its fact type or that fact type's population is missing
PredicatorUnresolved(predicatorId) ==
  \/ ~MapHas(schema.predicators, predicatorId)
  \/ ~MapHas(schema.factTypes, MapGet(schema.predicators, predicatorId).factTypeId)
  \/ ~MapHas(population.factPopulations,
             MapGet(schema.predicators, predicatorId).factTypeId)

NoViolationOf(constraintId) ==
  \A v \in Range(validation.violations) : v.constraintId # constraintId

\* C10 as stated: a built-in constraint that references a predicator, object
\* or fact type id that does not resolve in the schema, or whose object or
\* fact population is absent, gets no violation from validate.
C10_UnresolvedSkipped ==
  pc = "edit" =>
    /\ \A c \in Range(schema.uniqueConstraints) :
         (\E k \in DOMAIN c.predicatorIds : PredicatorUnresolved(c.predicatorIds[k]))
           => NoViolationOf(c.id)
    /\ \A c \in Range(schema.totalRoleConstraints) :
         (\/ PredicatorUnresolved(c.predicatorId)
          \/ ~MapHas(schema.objects, c.objectId)
          \/ ~MapHas(population.objectPopulations, c.objectId))
           => NoViolationOf(c.id)
    /\ \A c \in Range(schema.setConstraints) :
         (\E pid \in Range(c.sourcePredicatorIds) \cup Range(c.targetPredicatorIds) :
            PredicatorUnresolved(pid))
           => NoViolationOf(c.id)
    /\ \A c \in Range(schema.cardinalityConstraints) :
         PredicatorUnresolved(c.predicatorId) => NoViolationOf(c.id)
    /\ \A c \in Range(schema.frequencyConstraints) :
         (\/ ~MapHas(schema.factTypes, c.factTypeId)
          \/ ~MapHas(population.factPopulations, c.factTypeId))
           => NoViolationOf(c.id)
    /\ \A c \in Range(schema.enumerationConstraints) :
         (\/ ~MapHas(schema.labelTypes, c.labelTypeId)
          \/ ~MapHas(population.objectPopulations, c.labelTypeId))
           => NoViolationOf(c.id)

(***************************************************************************)
(* Validation of populations (SpecPop)                                     *)
(***************************************************************************)
\* the violations validationStore shows for a constraint
ViolationsOf(constraintId, constraintType) ==
  SelectSeq(validation.violations,
            LAMBDA v : v.constraintId = constraintId /\ v.constraintType = constraintType)

\* the recorded tuples of a fact type: none when it has no population
RecordedTuples(factTypeId) ==
  IF MapHas(population.factPopulations, factTypeId)
  THEN MapGet(population.factPopulations, factTypeId).tuples
  ELSE <<>>

\* the instances of an object's population that are the value of the role
\* in no tuple of the role's fact type
MissingInstances(objectId, predicatorId) ==
  LET tuples == RecordedTuples(MapGet(schema.predicators, predicatorId).factTypeId)
  IN {x \in Range(MapGet(population.objectPopulations, objectId).instances) :
        \A k \in DOMAIN tuples : TupleGet(tuples[k], predicatorId) # <<x>>}

\* the total role constraint resolves and its object has instances
TotalRoleApplies(c) ==
  /\ MapHas(schema.predicators, c.predicatorId)
  /\ MapHas(schema.factTypes, MapGet(schema.predicators, c.predicatorId).factTypeId)
  /\ MapHas(population.objectPopulations, c.objectId)
  /\ MapGet(population.objectPopulations, c.objectId).instances # <<>>

\* C11 as stated: a resolving Total Role constraint yields exactly one
\* TotalRole violation per instance of the object's population that is the
\* role's value in no tuple, whether the fact type has tuples, an empty
\* tuple list or no recorded tuples at all
C11_OnePerMissingInstance ==
  \A c \in Range(schema.totalRoleConstraints) :
    TotalRoleApplies(c) =>
      Len(ViolationsOf(c.id, "TotalRole"))
        = Cardinality(MissingInstances(c.objectId, c.predicatorId))

\* C11 amended: the count holds when the fact type has a recorded
\* population; when it has none the constraint is skipped and yields no
\* violation
C11_OnePerMissingInstanceOfRecorded ==
  \A c \in Range(schema.totalRoleConstraints) :
    TotalRoleApplies(c) =>
      Len(ViolationsOf(c.id, "TotalRole"))
        = IF MapHas(population.factPopulations,
                    MapGet(schema.predicators, c.predicatorId).factTypeId)
          THEN Cardinality(MissingInstances(c.objectId, c.predicatorId))
          ELSE 0

\* two instances, one of them in a tuple of the role: one violation
C11_Witness ==
  \E c \in Range(schema.totalRoleConstraints) :
    /\ TotalRoleApplies(c)
    /\ Len(MapGet(population.objectPopulations, c.objectId).instances) = 2
    /\ RecordedTuples(MapGet(schema.predicators, c.predicatorId).factTypeId) # <<>>
    /\ Cardinality(MissingInstances(c.objectId, c.predicatorId)) = 1
    /\ Len(ViolationsOf(c.id, "TotalRole")) = 1

\* the values of a tuple in the constrained predicators, in their order
Combination(c, tuple) ==
  [i \in DOMAIN c.predicatorIds |-> TupleGet(tuple, c.predicatorIds[i])]

\* the positions of the tuples whose combination occurs in an earlier tuple
RepeatPositions(c, tuples) ==
  {k \in DOMAIN tuples :
     \E j \in 1..(k - 1) : Combination(c, tuples[j]) = Combination(c, tuples[k])}

\* the tuples of the fact type that owns the constraint's first predicator
ConstrainedTuples(c) ==
  IF c.predicatorIds # <<>> /\ MapHas(schema.predicators, c.predicatorIds[1])
  THEN RecordedTuples(MapGet(schema.predicators, c.predicatorIds[1]).factTypeId)
  ELSE <<>>

ReachableValues(predicatorIds) ==
  UNION {
    IF ~MapHas(schema.predicators, predicatorIds[i]) THEN {}
    ELSE LET tuples ==
               IF MapHas(schema.factTypes,
                         MapGet(schema.predicators, predicatorIds[i]).factTypeId)
               THEN RecordedTuples(MapGet(schema.predicators, predicatorIds[i]).factTypeId)
               ELSE <<>>
         IN {tuples[k][predicatorIds[i]] :
               k \in {j \in DOMAIN tuples :
                        IsPresent(TupleGet(tuples[j], predicatorIds[i]))}}
    : i \in DOMAIN predicatorIds}

\* the relation of a set constraint fails for the value sets S and T
RelationFails(type, S, T) ==
  CASE type = "Subset" -> ~(S \subseteq T)
    [] type = "Equality" -> S # T
    [] type = "Exclusion" -> S \cap T # {}
    [] OTHER -> FALSE

\* C13: a Set constraint yields at most one violation, and exactly one if
\* and only if its relation fails: Subset iff S is no subset of T, Equality
\* iff S differs from T, Exclusion iff S and T share a value
C13_OneIffRelationFails ==
  \A c \in Range(schema.setConstraints) :
    LET S == ReachableValues(c.sourcePredicatorIds)
        T == ReachableValues(c.targetPredicatorIds)
        reported == ViolationsOf(c.id, "SetConstraint")
    IN /\ Len(reported) <= 1
       /\ Len(reported) = 1 <=> RelationFails(c.type, S, T)

\* an Exclusion constraint whose sides share two values: one violation
C13_Witness ==
  \E c \in Range(schema.setConstraints) :
    /\ c.type = "Exclusion"
    /\ Cardinality(ReachableValues(c.sourcePredicatorIds)
                   \cap ReachableValues(c.targetPredicatorIds)) = 2
    /\ Len(ViolationsOf(c.id, "SetConstraint")) = 1

\* the number of tuples in which the role has the value
Occurrences(tuples, predicatorId, value) ==
  Cardinality({k \in DOMAIN tuples : TupleGet(tuples[k], predicatorId) = <<value>>})

\* the count lies outside [min, max], using only the bounds that are defined
OutOfBounds(count, min, max) ==
  \/ min # <<>> /\ count < min[1]
  \/ max # <<>> /\ count > max[1]

\* C14: a Cardinality constraint whose predicator, fact type and fact
\* population resolve yields as many violations as there are distinct
\* instance values in the constrained role whose number of occurrences is
\* outside [min, max], also when min > max
C14_OnePerInstanceOutOfBounds ==
  \A c \in Range(schema.cardinalityConstraints) :
    (/\ MapHas(schema.predicators, c.predicatorId)
     /\ MapHas(schema.factTypes, MapGet(schema.predicators, c.predicatorId).factTypeId)
     /\ MapHas(population.factPopulations,
               MapGet(schema.predicators, c.predicatorId).factTypeId))
    => LET tuples == RecordedTuples(MapGet(schema.predicators, c.predicatorId).factTypeId)
       IN Len(ViolationsOf(c.id, "Cardinality"))
            = Cardinality({v \in ReachableValues(<<c.predicatorId>>) :
                 OutOfBounds(Occurrences(tuples, c.predicatorId, v), c.min, c.max)})

\* the violations of a constraint that carry the message
WithMessage(violations, key) ==
  SelectSeq(violations, LAMBDA v : v.message[1] = key)

\* C15: with n the number of tuples of the constrained fact type, a
\* Frequency constraint yields one violation if min is defined and n < min,
\* one if max is defined and n > max, and nothing else; with min > max it
\* yields at least one violation for every population
C15_OnePerBreachedBound ==
  \A c \in Range(schema.frequencyConstraints) :
    LET n == Len(RecordedTuples(c.factTypeId))
        reported == ViolationsOf(c.id, "Frequency")
        belowMin == c.min # <<>> /\ n < c.min[1]
        aboveMax == c.max # <<>> /\ n > c.max[1]
    IN /\ Len(WithMessage(reported, "FREQUENCY_MIN_VIOLATION"))
            = IF belowMin THEN 1 ELSE 0
       /\ Len(WithMessage(reported, "FREQUENCY_MAX_VIOLATION"))
            = IF aboveMax THEN 1 ELSE 0
       /\ Len(reported) = (IF belowMin THEN 1 ELSE 0) + (IF aboveMax THEN 1 ELSE 0)
       /\ (c.min # <<>> /\ c.max # <<>> /\ c.min[1] > c.max[1]) => Len(reported) >= 1

\* contradictory bounds and a tuple count between them: two violations
C15_Witness ==
  \E c \in Range(schema.frequencyConstraints) :
    /\ c.min # <<>> /\ c.max # <<>> /\ c.min[1] > c.max[1]
    /\ Len(RecordedTuples(c.factTypeId)) > c.max[1]
    /\ Len(RecordedTuples(c.factTypeId)) < c.min[1]
    /\ Len(ViolationsOf(c.id, "Frequency")) = 2

\* the instances recorded for an object; <<>> when it has no population
RecordedInstances(objectId) ==
  IF MapHas(population.objectPopulations, objectId)
  THEN MapGet(population.objectPopulations, objectId).instances
  ELSE <<>>

\* C16: for an Enumeration constraint whose label type has a population,
\* validate reports one Enumeration violation per instance that is not among
\* the allowed values and none for the instances that are
C16_OnePerInstanceNotAllowed ==
  \A c \in Range(schema.enumerationConstraints) :
    MapHas(population.objectPopulations, c.labelTypeId) =>
      LET instances == RecordedInstances(c.labelTypeId)
          reported == ViolationsOf(c.id, "Enumeration")
      IN /\ Len(reported)
              = Cardinality({i \in DOMAIN instances :
                               instances[i] \notin Range(c.allowedValues)})
         /\ \A i \in DOMAIN reported :
              /\ reported[i].severity = "Error"
              /\ reported[i].affectedObjects = <<c.labelTypeId>>

\* 'suspended' and 'inactive' recorded for a label type that allows 'active'
\* and 'inactive': one violation
C16_Witness ==
  \E c \in Range(schema.enumerationConstraints) :
    /\ Range(c.allowedValues) = {ACTIVE, INACTIVE}
    /\ Range(RecordedInstances(c.labelTypeId)) = {SUSPENDED, INACTIVE}
    /\ Len(ViolationsOf(c.id, "Enumeration")) = 1

\* C17: isValid is true exactly when no violation has severity 'Error';
\* violations of severity 'Warning', which only custom constraints produce,
\* never make it false, and neither does the isValid flag a custom
\* constraint's function returns
C17_ValidIffNoError ==
  /\ validation.isValid
       <=> (\A i \in DOMAIN validation.violations :
              validation.violations[i].severity # "Error")
  /\ \A i \in DOMAIN validation.violations :
       validation.violations[i].severity = "Warning"
         => validation.violations[i].constraintType = "Custom"

\* a stored custom function returns isValid false and a Warning, and the
\* result is valid
C17_Witness ==
  /\ \E c \in Range(schema.customConstraints) :
       LET result == constraintFunction(c, schema, population)
       IN /\ ~result.isValid
          /\ \E i \in DOMAIN result.violations :
               result.violations[i].severity = "Warning"
  /\ \E i \in DOMAIN validation.violations :
       validation.violations[i].severity = "Warning"
  /\ validation.isValid

\* the position of a category in the order validate runs the validators
CategoryRank(constraintType) ==
  CASE constraintType = "Uniqueness" -> 1
    [] constraintType = "TotalRole" -> 2
    [] constraintType = "SetConstraint" -> 3
    [] constraintType = "Cardinality" -> 4
    [] constraintType = "Frequency" -> 5
    [] constraintType = "Enumeration" -> 6
    [] OTHER -> 7

RECURSIVE CustomResults(_)
\* what the stored functions of the custom constraints return, one after
\* the other
CustomResults(constraints) ==
  IF constraints = <<>> THEN <<>>
  ELSE constraintFunction(Head(constraints), schema, population).violations
       \o CustomResults(Tail(constraints))

\* C18: the violations are listed by category in the order Uniqueness, Total
\* Role, Set, Cardinality, Frequency, Enumeration, Custom, and the Custom
\* part is the lists returned by the stored functions, in the order the
\* constraints were stored, each violation as returned
C18_ViolationsInCategoryOrder ==
  LET violations == validation.violations
      custom == CustomResults(schema.customConstraints)
  IN /\ \A i, j \in DOMAIN violations :
          i < j => CategoryRank(violations[i].constraintType)
                     <= CategoryRank(violations[j].constraintType)
     /\ Len(custom) <= Len(violations)
     /\ SubSeq(violations, Len(violations) - Len(custom) + 1, Len(violations))
          = custom
     /\ \A i \in 1..(Len(violations) - Len(custom)) :
          CategoryRank(violations[i].constraintType) < 7

\* two stored custom constraints report, after violations of two built-in
\* categories
C18_Witness ==
  /\ Len(schema.customConstraints) = 2
  /\ \A i \in DOMAIN schema.customConstraints :
       constraintFunction(schema.customConstraints[i], schema, population).violations
         # <<>>
  /\ Cardinality({CategoryRank(validation.violations[i].constraintType) :
                    i \in DOMAIN validation.violations}) >= 3

(***************************************************************************)
(* The canvas (project-store.ts) and its conversion: nodes, edges and      *)
(* constraints are added to the canvas and nodes removed from it, and      *)
(* SchemaConverter.convertToInformationSchema is called on the canvas;     *)
(* returned lists what the calls on the present canvas returned.           *)
(***************************************************************************)
MaxCanvasNodes == 2
MaxCanvasEdges == 2
MaxCanvasConstraints == 1
MaxCalls == 2

\* the values crypto.randomUUID() can return
UUIDs == {"uuid1", "uuid2"}

\* the nodes a user draws: an entity, a label type and two fact types, one
\* of them without a label
CanvasNodes ==
  { [id |-> EntityId(1), type |-> "entity", label |-> EntityName(1),
     dataType |-> <<>>, arity |-> <<>>],
    [id |-> LabelId(1), type |-> "labelType", label |-> LabelName(1),
     dataType |-> <<"integer">>, arity |-> <<>>],
    [id |-> FactTypeId(1), type |-> "factType", label |-> FactTypeName(1),
     dataType |-> <<>>, arity |-> <<2>>],
    [id |-> FactTypeId(2), type |-> "factType", label |-> <<>>,
     dataType |-> <<>>, arity |-> <<>>] }

CanvasEdgeIds == {PredicatorId(1), PredicatorId(2)}

CanvasConstraintTypes ==
  {"uniqueness", "mandatory", "subset", "frequency", "enumeration",
   "atLeast", "limit"}

\* the ids of the nodes and edges on the canvas
CanvasIds(canvas) ==
  {canvas.nodes[i].id : i \in DOMAIN canvas.nodes}
  \cup {canvas.edges[i].id : i \in DOMAIN canvas.edges}
  \cup {canvas.constraints[i].id : i \in DOMAIN canvas.constraints}

\* value || fallback for an optional value
OrElse(value, fallback) == IF value = <<>> THEN fallback ELSE value[1]

\* label || fallback for a string
LabelOr(label, fallback) == IF label = <<>> THEN fallback ELSE label

\* SchemaConverter.mapDataType
mapDataType(canvasDataType) ==
  CASE canvasDataType \in {"string", "text", "char"} -> "String"
    [] canvasDataType \in {"integer", "int"} -> "Integer"
    [] canvasDataType \in {"float", "double", "decimal"} -> "Decimal"
    [] canvasDataType \in {"boolean", "bool"} -> "Boolean"
    [] canvasDataType = "date" -> "Date"
    [] canvasDataType \in {"timestamp", "datetime"} -> "DateTime"
    [] OTHER -> "String"

\* convertNodes: one iteration of the loop
convertNode(sch, node) ==
  CASE node.type = "entity" ->
         SetEntity(sch,
           [id |-> node.id,
            name |-> LabelOr(node.label,
                       <<"U","n","n","a","m","e","d"," ","E","n","t","i","t","y">>),
            kind |-> "Entity",
            dataType |-> "",
            identifiers |-> <<>>,
            specializationOf |-> <<>>])
    [] node.type = "labelType" ->
         SetLabelType(sch,
           [id |-> node.id,
            name |-> LabelOr(node.label,
                       <<"U","n","n","a","m","e","d"," ","L","a","b","e","l">>),
            kind |-> "Label",
            dataType |-> mapDataType(OrElse(node.dataType, "string")),
            identifiers |-> <<>>,
            specializationOf |-> <<>>])
    [] node.type = "factType" ->
         [sch EXCEPT !.factTypes =
            MapSet(@, [id |-> node.id,
                       name |-> LabelOr(node.label,
                                  <<"U","n","n","a","m","e","d"," ","F","a","c","t">>),
                       predicators |-> <<>>,
                       isUnary |-> (OrElse(node.arity, 2) = 1),
                       isObjectified |-> FALSE,
                       objectifiedAsId |-> "",
                       arity |-> OrElse(node.arity, 2)])]
    [] OTHER -> sch

RECURSIVE convertNodes(_, _)
\* SchemaConverter.convertNodes
convertNodes(nodes, sch) ==
  IF nodes = <<>> THEN sch
  ELSE convertNodes(Tail(nodes), convertNode(sch, Head(nodes)))

\* canvasState.nodes.get(nodeId)?.type
NodeTypeOf(canvas, nodeId) ==
  IF MapHas(canvas.nodes, nodeId) THEN MapGet(canvas.nodes, nodeId).type ELSE ""

\* a convertEdges that creates the predicators mandatory
convertEdge_mandatory(canvas, acc, edge) ==
  IF edge.type = "predicator"
  THEN LET sourceIsFact == NodeTypeOf(canvas, edge.sourceNodeId) = "factType"
           targetIsFact == NodeTypeOf(canvas, edge.targetNodeId) = "factType"
           factTypeId == IF sourceIsFact THEN edge.sourceNodeId
                         ELSE IF targetIsFact THEN edge.targetNodeId ELSE ""
           objectId == IF sourceIsFact THEN edge.targetNodeId
                       ELSE IF targetIsFact THEN edge.sourceNodeId ELSE ""
           predicator ==
             [id |-> edge.id, name |-> edge.label, factTypeId |-> factTypeId,
              position |-> 0, objectId |-> objectId, isOptional |-> FALSE]
       IN IF factTypeId # "" /\ objectId # ""
          THEN [acc EXCEPT !.schema.predicators = MapSet(@, predicator)]
          ELSE acc
  ELSE acc

\* convertEdges, first loop: one iteration; acc holds the schema and the
\* edges grouped by fact type
convertEdge(canvas, acc, edge) ==
  IF edge.type = "predicator"
  THEN LET sourceIsFact == NodeTypeOf(canvas, edge.sourceNodeId) = "factType"
           targetIsFact == NodeTypeOf(canvas, edge.targetNodeId) = "factType"
           factTypeId == IF sourceIsFact THEN edge.sourceNodeId
                         ELSE IF targetIsFact THEN edge.targetNodeId ELSE ""
           objectId == IF sourceIsFact THEN edge.targetNodeId
                       ELSE IF targetIsFact THEN edge.sourceNodeId ELSE ""
           group == IF MapHas(acc.factTypeEdges, factTypeId)
                    THEN MapGet(acc.factTypeEdges, factTypeId)
                    ELSE [id |-> factTypeId, edges |-> <<>>]
           predicator ==
             [id |-> edge.id,
              name |-> LabelOr(edge.label,
                         <<"u","n","n","a","m","e","d","_","r","o","l","e">>),
              factTypeId |-> factTypeId,
              position |-> 0,
              objectId |-> objectId,
              isOptional |-> TRUE]
       IN IF factTypeId # "" /\ objectId # ""
          THEN [schema |-> [acc.schema EXCEPT !.predicators = MapSet(@, predicator)],
                factTypeEdges |->
                  MapSet(acc.factTypeEdges,
                         [group EXCEPT !.edges =
                            IF edge.id \in Range(@) THEN @ ELSE Append(@, edge.id)])]
          ELSE acc
  ELSE IF edge.type = "specialization" /\ MapHas(acc.schema.entities, edge.sourceNodeId)
  THEN LET subtype == MapGet(acc.schema.entities, edge.sourceNodeId)
       IN [acc EXCEPT !.schema =
             SetEntity(@, [subtype EXCEPT !.specializationOf =
                                     Append(@, edge.targetNodeId)])]
  ELSE acc

RECURSIVE groupEdges(_, _, _)
groupEdges(canvas, edges, acc) ==
  IF edges = <<>> THEN acc
  ELSE groupEdges(canvas, Tail(edges), convertEdge(canvas, acc, Head(edges)))

RECURSIVE setPositions(_, _, _)
\* predicatorIds.forEach((predId, index) => pred.position = index)
setPositions(predicators, predicatorIds, index) ==
  IF predicatorIds = <<>> THEN predicators
  ELSE setPositions(
         IF MapHas(predicators, Head(predicatorIds))
         THEN MapSet(predicators,
                [MapGet(predicators, Head(predicatorIds)) EXCEPT !.position = index])
         ELSE predicators,
         Tail(predicatorIds), index + 1)

RECURSIVE connectFactTypes(_, _)
\* convertEdges, second loop: the fact types get their predicators
connectFactTypes(groups, sch) ==
  IF groups = <<>> THEN sch
  ELSE LET group == Head(groups)
           factType == MapGet(sch.factTypes, group.id)
       IN connectFactTypes(Tail(groups),
            IF MapHas(sch.factTypes, group.id)
            THEN [sch EXCEPT
                    !.factTypes =
                       MapSet(@, [factType EXCEPT !.predicators = group.edges,
                                                  !.arity = Len(group.edges),
                                                  !.isUnary = (Len(group.edges) = 1)]),
                    !.predicators = setPositions(@, group.edges, 0)]
            ELSE sch)

\* SchemaConverter.convertEdges
convertEdges(canvas, sch) ==
  LET grouped == groupEdges(canvas, canvas.edges,
                            [schema |-> sch, factTypeEdges |-> <<>>])
  IN connectFactTypes(grouped.factTypeEdges, grouped.schema)

\* appliesTo[0] || ''
FirstOrEmpty(ids) == IF ids = <<>> THEN "" ELSE ids[1]

\* the parameters of a constraint drawn without any: {}
NoParameters ==
  [min |-> <<>>, max |-> <<>>, maxIsInfinity |-> FALSE, values |-> <<>>,
   n |-> <<>>, m |-> <<>>]

\* a convertConstraints that makes every identifier primary
convertConstraint_allPrimary(sch, constraint) ==
  LET predicatorIds == OrElse(constraint.predicatorIds, constraint.appliesTo)
      firstPred == MapGet(sch.predicators, predicatorIds[1])
      identifies == /\ Len(predicatorIds) > 0
                    /\ MapHas(sch.predicators, predicatorIds[1])
                    /\ MapHas(sch.entities, firstPred.objectId)
      entity == MapGet(sch.entities, firstPred.objectId)
      uniqueConstraint ==
        [id |-> constraint.id,
         name |-> LabelOr(constraint.name, <<"U","C">>),
         predicatorIds |-> predicatorIds,
         isPrimary |-> identifies]
      withConstraint ==
        [sch EXCEPT !.uniqueConstraints = MapSet(@, uniqueConstraint)]
  IN IF constraint.type # "uniqueness" THEN sch
     ELSE IF identifies
     THEN SetEntity(withConstraint,
            [entity EXCEPT !.identifiers = Append(@, uniqueConstraint)])
     ELSE withConstraint

\* convertConstraints: one iteration of the loop; params is
\* constraint.parameters || {}
convertConstraint(sch, constraint) ==
  LET params == OrElse(constraint.parameters, NoParameters) IN
  CASE constraint.type = "uniqueness" ->
         LET predicatorIds == OrElse(constraint.predicatorIds, constraint.appliesTo)
             firstPred == MapGet(sch.predicators, predicatorIds[1])
             identifies == /\ Len(predicatorIds) > 0
                           /\ MapHas(sch.predicators, predicatorIds[1])
                           /\ MapHas(sch.entities, firstPred.objectId)
             entity == MapGet(sch.entities, firstPred.objectId)
             uniqueConstraint ==
               [id |-> constraint.id,
                name |-> LabelOr(constraint.name, <<"U","C">>),
                predicatorIds |-> predicatorIds,
                isPrimary |-> identifies /\ Len(entity.identifiers) = 0]
             withConstraint ==
               [sch EXCEPT !.uniqueConstraints = MapSet(@, uniqueConstraint)]
         IN IF identifies
            THEN SetEntity(withConstraint,
                   [entity EXCEPT !.identifiers = Append(@, uniqueConstraint)])
            ELSE withConstraint
    [] constraint.type = "mandatory" ->
         IF /\ Len(constraint.appliesTo) > 0
            /\ MapHas(sch.predicators, constraint.appliesTo[1])
         THEN LET predicator == MapGet(sch.predicators, constraint.appliesTo[1])
              IN [sch EXCEPT
                    !.predicators = MapSet(@, [predicator EXCEPT !.isOptional = FALSE]),
                    !.totalRoleConstraints =
                       MapSet(@, [id |-> constraint.id,
                                  name |-> LabelOr(constraint.name, <<"T","R">>),
                                  predicatorId |-> predicator.id,
                                  objectId |-> predicator.objectId])]
         ELSE sch
    [] constraint.type \in {"subset", "equality", "exclusion"} ->
         LET predicatorIds == OrElse(constraint.predicatorIds, <<>>)
             half == Len(predicatorIds) \div 2
         IN [sch EXCEPT !.setConstraints =
               MapSet(@, [id |-> constraint.id,
                          name |-> LabelOr(constraint.name, <<"S","C">>),
                          type |-> CASE constraint.type = "subset" -> "Subset"
                                     [] constraint.type = "equality" -> "Equality"
                                     [] OTHER -> "Exclusion",
                          sourcePredicatorIds |-> SubSeq(predicatorIds, 1, half),
                          targetPredicatorIds |->
                            SubSeq(predicatorIds, half + 1, Len(predicatorIds))])]
    [] constraint.type = "frequency" ->
         [sch EXCEPT !.frequencyConstraints =
            MapSet(@, [id |-> constraint.id,
                       name |-> LabelOr(constraint.name, <<"F","C">>),
                       factTypeId |-> FirstOrEmpty(constraint.appliesTo),
                       min |-> params.min,
                       max |-> IF params.maxIsInfinity
                               THEN <<>> ELSE params.max])]
    [] constraint.type = "enumeration" ->
         [sch EXCEPT !.enumerationConstraints =
            MapSet(@, [id |-> constraint.id,
                       name |-> LabelOr(constraint.name, <<"E","n">>),
                       labelTypeId |-> FirstOrEmpty(constraint.appliesTo),
                       allowedValues |-> params.values])]
    [] constraint.type \in {"atLeast", "limit"} ->
         [sch EXCEPT !.cardinalityConstraints =
            MapSet(@, [id |-> constraint.id,
                       name |-> LabelOr(constraint.name, <<"C","C">>),
                       predicatorId |-> FirstOrEmpty(constraint.appliesTo),
                       min |-> IF constraint.type = "atLeast"
                               THEN params.n ELSE <<>>,
                       max |-> IF constraint.type = "limit"
                               THEN params.m ELSE <<>>])]
    [] OTHER -> sch

RECURSIVE convertConstraints(_, _)
\* SchemaConverter.convertConstraints
convertConstraints(constraints, sch) ==
  IF constraints = <<>> THEN sch
  ELSE convertConstraints(Tail(constraints), convertConstraint(sch, Head(constraints)))

\* a property of a value is read at a site of the code: a TypeError when
\* the value is undefined, unless the read is guarded (an optional chain,
\* a test of the value before the read, or a default put in its place)
Fails(site, defined, guarded) == IF ~defined /\ ~guarded THEN {site} ELSE {}

\* the TypeErrors of one iteration of the first loop of convertEdges
edgeTypeErrors(canvas, sch, edge) ==
  IF edge.type = "predicator"
  THEN Fails(<<edge.id, "sourceNode?.type">>,
             MapHas(canvas.nodes, edge.sourceNodeId), TRUE)
       \cup Fails(<<edge.id, "targetNode?.type">>,
                  MapHas(canvas.nodes, edge.targetNodeId), TRUE)
  ELSE IF edge.type = "specialization"
  THEN Fails(<<edge.id, "subtype.specializationOf">>,
             MapHas(sch.entities, edge.sourceNodeId), TRUE)
  ELSE {}

\* a convertConstraints that reads the parameters without the || {}
constraintTypeErrors_noDefault(sch, constraint) ==
  IF constraint.type \in {"frequency", "enumeration", "atLeast", "limit"}
  THEN Fails(<<constraint.id, "params">>, constraint.parameters # <<>>, FALSE)
  ELSE {}

\* the TypeErrors of one iteration of the loop of convertConstraints
constraintTypeErrors(sch, constraint) ==
  LET predicatorIds == OrElse(constraint.predicatorIds, constraint.appliesTo)
      firstPred == MapGet(sch.predicators, predicatorIds[1])
  IN CASE constraint.type = "uniqueness" ->
            IF Len(predicatorIds) > 0
            THEN Fails(<<constraint.id, "firstPred.objectId">>,
                       MapHas(sch.predicators, predicatorIds[1]), TRUE)
                 \cup (IF MapHas(sch.predicators, predicatorIds[1])
                       THEN Fails(<<constraint.id, "entity.identifiers">>,
                                  MapHas(sch.entities, firstPred.objectId), TRUE)
                       ELSE {})
            ELSE {}
       [] constraint.type = "mandatory" ->
            IF Len(constraint.appliesTo) > 0
            THEN Fails(<<constraint.id, "predicator.isOptional">>,
                       MapHas(sch.predicators, constraint.appliesTo[1]), TRUE)
            ELSE {}
       [] constraint.type \in {"subset", "equality", "exclusion"} ->
            Fails(<<constraint.id, "predicatorIds?.slice">>,
                  constraint.predicatorIds # <<>>, TRUE)
       [] constraint.type \in {"frequency", "enumeration", "atLeast", "limit"} ->
            Fails(<<constraint.id, "params">>, constraint.parameters # <<>>, TRUE)
       [] OTHER -> {}

\* the TypeErrors a conversion of the canvas runs into
TypeErrors(canvas) ==
  LET withNodes == convertNodes(canvas.nodes, EmptySchema)
      withEdges == convertEdges(canvas, withNodes)
  IN UNION {edgeTypeErrors(canvas, withNodes, canvas.edges[i]) :
              i \in DOMAIN canvas.edges}
     \cup UNION {constraintTypeErrors(withEdges, canvas.constraints[i]) :
                   i \in DOMAIN canvas.constraints}

\* what a call returns that throws
TypeError == [threw |-> "TypeError"]

\* SchemaConverter.convertToInformationSchema; uuid is what
\* crypto.randomUUID() returns in the call
convertToInformationSchema(canvas, schemaName, uuid) ==
  LET empty == [id |-> uuid, name |-> schemaName, version |-> "1.0.0"] @@ EmptySchema
      withNodes == convertNodes(canvas.nodes, empty)
      withEdges == convertEdges(canvas, withNodes)
  IN IF TypeErrors(canvas) # {} THEN TypeError
     ELSE convertConstraints(canvas.constraints, withEdges)

\* an update of canvasStore: what was returned for the canvas before the
\* change is dropped. The converter reads the three maps of the canvas
\* only, so the undo history of the store is followed in SpecHistory and
\* left as it is here.
CanvasUpdate(newCanvas) ==
  /\ pc = "edit"
  /\ canvasState' = newCanvas
  /\ returned' = <<>>
  /\ UNCHANGED <<schema, population, pc, dialect, sqlSchema, ddl, validation,
                 storeVars>>

\* canvasStore.addNode: the labels are not the default ones, which addNode
\* replaces by generated names
AddNode ==
  \E node \in CanvasNodes :
    /\ Len(canvasState.nodes) < MaxCanvasNodes
    /\ ~MapHas(canvasState.nodes, node.id)
    /\ CanvasUpdate([canvasState EXCEPT !.nodes = MapSet(@, node)])

\* canvasStore.removeNode: the edges of the node go with it, the
\* constraints stay
RemoveCanvasNode ==
  \E i \in DOMAIN canvasState.nodes :
    LET nodeId == canvasState.nodes[i].id IN
    CanvasUpdate([canvasState EXCEPT
      !.nodes = MapDelete(@, nodeId),
      !.edges = SelectSeq(@, LAMBDA edge :
                  edge.sourceNodeId # nodeId /\ edge.targetNodeId # nodeId)])

\* canvasStore.addEdge: an edge drawn between two nodes of the canvas
AddEdge ==
  \E id \in CanvasEdgeIds, type \in {"predicator", "specialization"},
     i, j \in DOMAIN canvasState.nodes :
    /\ Len(canvasState.edges) < MaxCanvasEdges
    /\ ~MapHas(canvasState.edges, id)
    /\ i # j
    /\ CanvasUpdate([canvasState EXCEPT !.edges =
         MapSet(@, [id |-> id, type |-> type,
                    sourceNodeId |-> canvasState.nodes[i].id,
                    targetNodeId |-> canvasState.nodes[j].id,
                    label |-> IF type = "predicator" THEN <<"o","f">> ELSE <<>>])])

\* the parameters of a new constraint; maxIsInfinity stands for a max of
\* 'infinity'
CanvasConstraintParameters ==
  { [min |-> <<1>>, max |-> IF maxIsInfinity THEN <<>> ELSE <<2>>,
     maxIsInfinity |-> maxIsInfinity,
     values |-> allowedValues, n |-> <<1>>, m |-> <<2>>] :
      maxIsInfinity \in BOOLEAN, allowedValues \in AllowedValueLists }

\* canvasStore.addConstraint: a constraint on one element of the canvas; a
\* set constraint lists the predicator edges it relates
AddConstraint ==
  \E type \in CanvasConstraintTypes, parameters \in CanvasConstraintParameters,
     appliesTo \in {canvasState.nodes[i].id : i \in DOMAIN canvasState.nodes}
                   \cup {canvasState.edges[i].id : i \in DOMAIN canvasState.edges} :
    /\ Len(canvasState.constraints) < MaxCanvasConstraints
    /\ type # "frequency" => ~parameters.maxIsInfinity
    /\ CanvasUpdate([canvasState EXCEPT !.constraints =
         MapSet(@, [id |-> "c" \o ToString(Len(canvasState.constraints) + 1),
                    type |-> type,
                    name |-> <<>>,
                    appliesTo |-> <<appliesTo>>,
                    predicatorIds |->
                      IF type = "subset"
                      THEN << [i \in DOMAIN canvasState.edges |-> canvasState.edges[i].id] >>
                      ELSE <<>>,
                    parameters |-> <<parameters>>])])

\* a call of SchemaConverter.convertToInformationSchema on the canvas
ConvertToInformationSchema ==
  \E uuid \in UUIDs :
    /\ pc = "edit"
    /\ Len(returned) < MaxCalls
    /\ returned' = Append(returned,
                     convertToInformationSchema(canvasState, <<"S">>, uuid))
    /\ UNCHANGED <<schema, population, pc, dialect, sqlSchema, ddl, validation,
                   canvasState, storeVars>>

NextCanvas ==
  \/ AddNode
  \/ RemoveCanvasNode
  \/ AddEdge
  \/ AddConstraint
  \/ ConvertToInformationSchema

SpecCanvas == Init /\ [][NextCanvas]_vars

(***************************************************************************)
(* Claims about the conversion of a canvas (SpecCanvas)                    *)
(***************************************************************************)
\* the keys of a Map
Keys(m) == {m[i].id : i \in DOMAIN m}

\* the ids the converter gives to the elements of a schema
ElementIds(sch) ==
  Keys(sch.objects) \cup Keys(sch.factTypes) \cup Keys(sch.predicators)
  \cup Keys(sch.uniqueConstraints) \cup Keys(sch.totalRoleConstraints)
  \cup Keys(sch.setConstraints) \cup Keys(sch.cardinalityConstraints)
  \cup Keys(sch.frequencyConstraints) \cup Keys(sch.enumerationConstraints)

\* C19: two calls of convertToInformationSchema on the same canvas return
\* schemas that are equal in every field, ids included, and every id of a
\* returned schema, its own included, is the id of a node, an edge or a
\* constraint of the canvas
C19_SameSchemaFromSameCanvas ==
  /\ \A i, j \in DOMAIN returned : returned[i] = returned[j]
  /\ \A i \in DOMAIN returned :
       {returned[i].id} \cup ElementIds(returned[i]) \subseteq CanvasIds(canvasState)

\* the references of a schema that do not resolve within it
Unresolved(sch) ==
  {<<"predicator.objectId", p.id>> :
     p \in {q \in Range(sch.predicators) : q.objectId \notin Keys(sch.objects)}}
  \cup {<<"predicator.factTypeId", p.id>> :
     p \in {q \in Range(sch.predicators) : q.factTypeId \notin Keys(sch.factTypes)}}
  \cup {<<"uniqueness", c.id>> :
     c \in {d \in Range(sch.uniqueConstraints) :
              ~(Range(d.predicatorIds) \subseteq Keys(sch.predicators))}}
  \cup {<<"totalRole", c.id>> :
     c \in {d \in Range(sch.totalRoleConstraints) :
              d.predicatorId \notin Keys(sch.predicators)}}
  \cup {<<"set", c.id>> :
     c \in {d \in Range(sch.setConstraints) :
              ~(Range(d.sourcePredicatorIds) \cup Range(d.targetPredicatorIds)
                  \subseteq Keys(sch.predicators))}}
  \cup {<<"cardinality", c.id>> :
     c \in {d \in Range(sch.cardinalityConstraints) :
              d.predicatorId \notin Keys(sch.predicators)}}
  \cup {<<"frequency", c.id>> :
     c \in {d \in Range(sch.frequencyConstraints) :
              d.factTypeId \notin Keys(sch.factTypes)}}
  \cup {<<"enumeration", c.id>> :
     c \in {d \in Range(sch.enumerationConstraints) :
              d.labelTypeId \notin Keys(sch.labelTypes)}}

\* C20: in every schema the converter returns, the objectId and factTypeId
\* of every predicator and every id a stored constraint refers to is a key
\* of the corresponding map of the schema
C20_ReferentiallyClosed ==
  \A i \in DOMAIN returned : Unresolved(returned[i]) = {}

\* the role edges drawn at a fact type node, in the order they were added
RoleEdgesAt(canvas, nodeId) ==
  LET attached == SelectSeq(canvas.edges, LAMBDA edge :
                    /\ edge.type = "predicator"
                    /\ nodeId \in {edge.sourceNodeId, edge.targetNodeId})
  IN [i \in DOMAIN attached |-> attached[i].id]

\* C21: for every fact type of a returned schema, arity is the length of
\* its predicators list, isUnary holds iff arity = 1, the list is the role
\* edges at the fact type's node in the order they were added, and the
\* predicator at index i of the list has position i (counted from 0)
C21_FactTypeRoles ==
  \A n \in DOMAIN returned :
    \A factType \in Range(returned[n].factTypes) :
      /\ factType.arity = Len(factType.predicators)
      /\ factType.isUnary <=> (factType.arity = 1)
      /\ factType.predicators = RoleEdgesAt(canvasState, factType.id)
      /\ \A i \in DOMAIN factType.predicators :
           /\ MapHas(returned[n].predicators, factType.predicators[i])
           /\ MapGet(returned[n].predicators, factType.predicators[i]).position = i - 1

(***************************************************************************)
(* The conversion of a drawn graph: a canvas with some nodes, role and     *)
(* specialization edges (some with an end that is no node of the canvas,   *)
(* or with fact types at both ends) and constraints (some of them on       *)
(* nothing, or without parameters) is converted.                           *)
(***************************************************************************)
MaxGraphEdges == 2
MaxGraphConstraints == 2

\* the lists of at most max different elements of a pool
ListsOf(pool, max) ==
  UNION {{list \in [1..k -> pool] :
            \A i, j \in 1..k : i # j => list[i] # list[j]} : k \in 0..max}

CanvasNode(id) == CHOOSE node \in CanvasNodes : node.id = id

\* a node of a kind the converter does not know
UnknownNode ==
  [id |-> "x1", type |-> "annotation", label |-> <<"?">>,
   dataType |-> <<>>, arity |-> <<>>]

GraphNodeLists ==
  { <<CanvasNode(EntityId(1)), CanvasNode(LabelId(1)), CanvasNode(FactTypeId(1))>>,
    <<CanvasNode(FactTypeId(1)), CanvasNode(EntityId(1)), UnknownNode>>,
    <<CanvasNode(EntityId(1)), CanvasNode(FactTypeId(1)), CanvasNode(FactTypeId(2))>> }

GraphEdges ==
  { [id |-> PredicatorId(1), type |-> "predicator", label |-> <<"o","f">>,
     sourceNodeId |-> FactTypeId(1), targetNodeId |-> EntityId(1)],
    [id |-> PredicatorId(2), type |-> "predicator", label |-> <<>>,
     sourceNodeId |-> LabelId(1), targetNodeId |-> FactTypeId(1)],
    [id |-> PredicatorId(3), type |-> "predicator", label |-> <<"i","n">>,
     sourceNodeId |-> FactTypeId(2), targetNodeId |-> FactTypeId(1)],
    [id |-> "s1", type |-> "specialization", label |-> <<>>,
     sourceNodeId |-> EntityId(1), targetNodeId |-> LabelId(1)] }

GraphConstraint(id, type, appliesTo, predicatorIds) ==
  [id |-> id, type |-> type, name |-> <<>>, appliesTo |-> appliesTo,
   predicatorIds |-> predicatorIds, parameters |-> <<>>]

GraphConstraints ==
  { GraphConstraint("u1", "uniqueness", <<PredicatorId(1)>>, <<>>),
    GraphConstraint("u2", "uniqueness", <<>>, <<<<PredicatorId(1), PredicatorId(2)>>>>),
    GraphConstraint("u3", "uniqueness", <<>>, <<>>),
    GraphConstraint("u4", "uniqueness", <<PredicatorId(2)>>, <<>>),
    GraphConstraint("m1", "mandatory", <<PredicatorId(1)>>, <<>>),
    GraphConstraint("m2", "mandatory", <<>>, <<>>),
    GraphConstraint("s3", "subset", <<>>,
                    <<<<PredicatorId(1), PredicatorId(2), PredicatorId(3)>>>>),
    GraphConstraint("q1", "frequency", <<>>, <<>>),
    GraphConstraint("x2", "noEmpty", <<EntityId(1)>>, <<>>) }

Graphs ==
  { [nodes |-> nodes, edges |-> edges, constraints |-> constraints] :
      nodes \in GraphNodeLists,
      edges \in ListsOf(GraphEdges, MaxGraphEdges),
      constraints \in ListsOf(GraphConstraints, MaxGraphConstraints) }

\* canvasStore after loadState of a drawn graph
InitGraph ==
  /\ schema = EmptySchema
  /\ population = EmptyPopulation
  /\ pc = "edit"
  /\ dialect = "PostgreSQL"
  /\ sqlSchema = NoSQL
  /\ ddl = <<>>
  /\ validation = NoValidation
  /\ canvasState \in Graphs
  /\ returned = <<>>
  /\ NoHistory

\* the call of SchemaConverter.convertToInformationSchema on the graph
ConvertGraph ==
  \E uuid \in UUIDs :
    /\ pc = "edit"
    /\ returned = <<>>
    /\ returned' = <<convertToInformationSchema(canvasState, <<"S">>, uuid)>>
    /\ UNCHANGED <<schema, population, pc, dialect, sqlSchema, ddl, validation,
                   canvasState, storeVars>>

NextGraph == ConvertGraph

SpecGraph == InitGraph /\ [][NextGraph]_vars

FirstPredicatorOf(constraint) ==
  FirstOrEmpty(OrElse(constraint.predicatorIds, constraint.appliesTo))

\* the uniqueness constraints of the canvas whose first predicator is, in
\* the schema, a predicator based on the object, in the order they were added
IdentifiersDrawn(canvas, sch, objectId) ==
  SelectSeq(canvas.constraints, LAMBDA constraint :
    /\ constraint.type = "uniqueness"
    /\ MapHas(sch.predicators, FirstPredicatorOf(constraint))
    /\ MapGet(sch.predicators, FirstPredicatorOf(constraint)).objectId = objectId)

\* C23: in a returned schema every entity with identifiers has exactly one
\* primary identifier, the first of the list, which is the first uniqueness
\* constraint of the graph whose first predicator is a predicator based on
\* the entity; a uniqueness constraint that is no entity's identifier is
\* not primary
C23_FirstIdentifierPrimary ==
  \A n \in DOMAIN returned :
    LET sch == returned[n] IN
    /\ \A entity \in Range(sch.entities) :
         entity.identifiers # <<>> =>
           /\ {i \in DOMAIN entity.identifiers : entity.identifiers[i].isPrimary} = {1}
           /\ entity.identifiers[1].id
                = IdentifiersDrawn(canvasState, sch, entity.id)[1].id
           /\ \A i \in DOMAIN entity.identifiers :
                entity.identifiers[i].isPrimary
                  = MapGet(sch.uniqueConstraints, entity.identifiers[i].id).isPrimary
    /\ \A constraint \in Range(sch.uniqueConstraints) :
         (\A entity \in Range(sch.entities) :
            \A i \in DOMAIN entity.identifiers :
              entity.identifiers[i].id # constraint.id)
           => ~constraint.isPrimary

\* an entity has got two identifiers, the composite constraint first
C23_Witness ==
  /\ returned # <<>>
  /\ \E entity \in Range(returned[1].entities) :
       /\ Len(entity.identifiers) = 2
       /\ Len(entity.identifiers[1].predicatorIds) = 2

\* C24: in a returned schema a predicator is not optional iff it is the
\* appliesTo[0] of a mandatory constraint of the graph, and the total role
\* constraints are the mandatory constraints whose appliesTo[0] is a
\* predicator, each with that predicator and its object
C24_MandatoryRoles ==
  \A n \in DOMAIN returned :
    LET sch == returned[n]
        mandatory == SelectSeq(canvasState.constraints, LAMBDA constraint :
                       /\ constraint.type = "mandatory"
                       /\ MapHas(sch.predicators, FirstOrEmpty(constraint.appliesTo)))
    IN /\ \A predicator \in Range(sch.predicators) :
            ~predicator.isOptional
              <=> \E i \in DOMAIN canvasState.constraints :
                    /\ canvasState.constraints[i].type = "mandatory"
                    /\ FirstOrEmpty(canvasState.constraints[i].appliesTo) = predicator.id
       /\ Len(sch.totalRoleConstraints) = Len(mandatory)
       /\ \A i \in DOMAIN mandatory :
            /\ sch.totalRoleConstraints[i].id = mandatory[i].id
            /\ sch.totalRoleConstraints[i].predicatorId = mandatory[i].appliesTo[1]
            /\ sch.totalRoleConstraints[i].objectId
                 = MapGet(sch.predicators, mandatory[i].appliesTo[1]).objectId

\* a graph with two role edges and a mandatory constraint on one of them
\* has been converted
C24_Witness ==
  /\ returned # <<>>
  /\ Len(returned[1].predicators) = 2
  /\ Len(returned[1].totalRoleConstraints) = 1
  /\ \E predicator \in Range(returned[1].predicators) : predicator.isOptional
  /\ \E predicator \in Range(returned[1].predicators) : ~predicator.isOptional

\* C25: in a returned schema every identifier of an entity refers only to
\* predicators based on that entity, also when it is a composite constraint
\* over predicators of different objects
C25_IdentifiersOnOwnRoles ==
  \A n \in DOMAIN returned :
    \A entity \in Range(returned[n].entities) :
      \A i \in DOMAIN entity.identifiers :
        \A predicatorId \in Range(entity.identifiers[i].predicatorIds) :
          /\ MapHas(returned[n].predicators, predicatorId)
          /\ MapGet(returned[n].predicators, predicatorId).objectId = entity.id

(***************************************************************************)
(* Claims about the tables of binary fact types (Spec)                     *)
(***************************************************************************)
\* a non-objectified binary fact type whose two predicators and their
\* objects are in the schema
ResolvedBinary(factType) ==
  /\ ~factType.isObjectified
  /\ factType.arity = 2 /\ Len(factType.predicators) = 2
  /\ \A k \in 1..2 :
       /\ MapHas(schema.predicators, factType.predicators[k])
       /\ MapHas(schema.objects,
                 MapGet(schema.predicators, factType.predicators[k]).objectId)

\* the SQL schema has a junction table of the fact type, named after it
HasJunctionTable(factType) ==
  LET t == TableIndex(sqlSchema, "junction", factType.id)
  IN t # 0 /\ sqlSchema.tables[t].name = sanitizeName(factType.name)

\* the table of an entity that plays a role of the fact type has a column
\* named after the other role
HasFactColumn(factType) ==
  \E a, b \in 1..2 :
    LET pa == MapGet(schema.predicators, factType.predicators[a])
        pb == MapGet(schema.predicators, factType.predicators[b])
    IN /\ a # b
       /\ MapHas(schema.entities, pa.objectId)
       /\ sanitizeName(pb.name)
            \in ColumnNames(EntityTable(MapGet(schema.entities, pa.objectId)))

\* C26: a non-objectified binary fact type whose predicators and objects
\* resolve is represented in the generated SQL schema, by a junction table
\* named after it or by a column of an entity table, and not by both
C26_BinaryFactTypeRepresented ==
  Generated =>
    \A i \in DOMAIN schema.factTypes :
      ResolvedBinary(schema.factTypes[i]) =>
        /\ HasJunctionTable(schema.factTypes[i]) \/ HasFactColumn(schema.factTypes[i])
        /\ ~(HasJunctionTable(schema.factTypes[i]) /\ HasFactColumn(schema.factTypes[i]))

(***************************************************************************)
(* Interactive building: objects and fact types are added to graphStore    *)
(* and removed from it.                                                    *)
(***************************************************************************)
NextStore ==
  \/ AddEntity
  \/ AddLabelType
  \/ AddFactType
  \/ RemoveNode
  \/ RemoveFactType

SpecStore == Init /\ [][NextStore]_vars

\* C27: after any sequence of addEntity, addLabelType, addFactType,
\* removeNode and removeFactType every predicator of the schema has its
\* objectId in schema.objects and its factTypeId in schema.factTypes
C27_PredicatorsResolve ==
  \A predicator \in Range(schema.predicators) :
    /\ MapHas(schema.objects, predicator.objectId)
    /\ MapHas(schema.factTypes, predicator.factTypeId)

(***************************************************************************)
(* The undo history of canvasStore (project-store.ts).  A store is the     *)
(* record of the canvas maps, the selection, the history, the history      *)
(* index and the clipboard; every method of the store is an operator from  *)
(* stores to stores.  historyIndex counts from 0 as in the code, so the    *)
(* entry it points at is history[historyIndex + 1].                        *)
(***************************************************************************)
maxHistory == 50
MaxOperations == 3

\* the store the variables hold
Store ==
  [canvasState |-> canvasState, selection |-> selection, history |-> history,
   historyIndex |-> historyIndex, clipboard |-> clipboard]

\* createInitialCanvasState and the initial selection
NoSelection == [nodes |-> {}, edges |-> {}]

\* Array.from(map.entries()): the [key, value] pairs in insertion order
entries(map) == [i \in DOMAIN map |-> <<map[i].id, map[i]>>]

\* new Map(pairs): a later pair replaces an earlier one with the same key
RECURSIVE NewMap(_)
NewMap(pairs) ==
  IF pairs = <<>> THEN <<>>
  ELSE MapSet(NewMap(SubSeq(pairs, 1, Len(pairs) - 1)), pairs[Len(pairs)][2])

\* cloneMap: the map is written as JSON text and read back; the values of
\* the canvas maps are plain objects of strings, numbers and arrays, which
\* JSON gives back as they are
cloneMap(map) == NewMap(entries(map))

\* the history entry pushed for a canvas
HistoryEntry(canvas) ==
  [nodes |-> cloneMap(canvas.nodes), edges |-> cloneMap(canvas.edges),
   constraints |-> cloneMap(canvas.constraints)]

\* saveHistory without the limit on the size of the history
saveHistory_unlimited(store) ==
  [store EXCEPT
     !.history = Append(SubSeq(@, 1, store.historyIndex + 1),
                        HistoryEntry(store.canvasState)),
     !.historyIndex = @ + 1]

\* saveHistory: the redo entries are cut off, the canvas is pushed, and
\* beyond maxHistory entries the oldest one is shifted out
saveHistory(store) ==
  LET pushed == Append(SubSeq(store.history, 1, store.historyIndex + 1),
                       HistoryEntry(store.canvasState))
  IN IF Len(pushed) > maxHistory
     THEN [store EXCEPT !.history = Tail(pushed)]
     ELSE [store EXCEPT !.history = pushed, !.historyIndex = @ + 1]

\* canvasStore.addNode (a label that is not a default one is kept)
addNode(store, node) ==
  saveHistory([store EXCEPT !.canvasState.nodes = MapSet(@, node)])

\* canvasStore.updateNode with updates {label}
updateNode(store, nodeId, label) ==
  saveHistory(
    IF MapHas(store.canvasState.nodes, nodeId)
    THEN [store EXCEPT !.canvasState.nodes =
            MapSet(@, [MapGet(@, nodeId) EXCEPT !.label = label])]
    ELSE store)

\* canvasStore.removeNode of the canvas
removeCanvasNode(store, nodeId) ==
  saveHistory([store EXCEPT
    !.canvasState.nodes = MapDelete(@, nodeId),
    !.selection.nodes = @ \ {nodeId},
    !.canvasState.edges = SelectSeq(@, LAMBDA edge :
        edge.sourceNodeId # nodeId /\ edge.targetNodeId # nodeId)])

\* canvasStore.addEdge
addEdge(store, edge) ==
  saveHistory([store EXCEPT !.canvasState.edges = MapSet(@, edge)])

\* canvasStore.removeEdge
removeEdge(store, edgeId) ==
  saveHistory([store EXCEPT !.canvasState.edges = MapDelete(@, edgeId),
                            !.selection.edges = @ \ {edgeId}])

\* canvasStore.updateEdge with updates {label}
updateEdge(store, edgeId, label) ==
  saveHistory(
    IF MapHas(store.canvasState.edges, edgeId)
    THEN [store EXCEPT !.canvasState.edges =
            MapSet(@, [MapGet(@, edgeId) EXCEPT !.label = label])]
    ELSE store)

\* canvasStore.finishDrawingEdge after startDrawingEdge: the edge is set
\* and the history is not saved
finishDrawingEdge(store, edge) ==
  [store EXCEPT !.canvasState.edges = MapSet(@, edge)]

\* canvasStore.selectNode without multiSelect
selectNode(store, nodeId) ==
  [store EXCEPT !.selection = [nodes |-> {nodeId}, edges |-> {}]]

\* canvasStore.selectEdge without multiSelect
selectEdge(store, edgeId) ==
  [store EXCEPT !.selection = [nodes |-> {}, edges |-> {edgeId}]]

\* canvasStore.deleteSelected
deleteSelected(store) ==
  saveHistory([store EXCEPT
    !.canvasState.nodes = SelectSeq(@, LAMBDA node :
        node.id \notin store.selection.nodes),
    !.canvasState.edges = SelectSeq(@, LAMBDA edge :
        /\ edge.sourceNodeId \notin store.selection.nodes
        /\ edge.targetNodeId \notin store.selection.nodes
        /\ edge.id \notin store.selection.edges),
    !.selection = NoSelection])

\* canvasStore.clear: the history is saved before the canvas is replaced
clear(store) ==
  [saveHistory(store) EXCEPT !.canvasState = EmptyCanvas,
                             !.selection = NoSelection]

\* canvasStore.canUndo and canRedo
canUndo(store) == store.historyIndex > 0

canRedo(store) == store.historyIndex < Len(store.history) - 1

\* the update of undo and redo: the maps of the entry the index points at
Restore(store) ==
  LET entry == store.history[store.historyIndex + 1]
  IN [store EXCEPT
        !.canvasState = [nodes |-> cloneMap(entry.nodes),
                         edges |-> cloneMap(entry.edges),
                         constraints |-> cloneMap(entry.constraints)],
        !.selection = NoSelection]

\* canvasStore.undo
undo(store) ==
  IF store.historyIndex > 0
  THEN Restore([store EXCEPT !.historyIndex = @ - 1])
  ELSE store

\* canvasStore.redo
redo(store) ==
  IF store.historyIndex < Len(store.history) - 1
  THEN Restore([store EXCEPT !.historyIndex = @ + 1])
  ELSE store

\* canvasStore.copy: the selected nodes and edges that are on the canvas
copy(store) ==
  [store EXCEPT !.clipboard =
     [nodes |-> SelectSeq(store.canvasState.nodes, LAMBDA node :
                  node.id \in store.selection.nodes),
      edges |-> SelectSeq(store.canvasState.edges, LAMBDA edge :
                  edge.id \in store.selection.edges)]]

\* paste: the clipboard nodes under the new ids uuids[1], uuids[2], ...
pasteNodes(nodes, uuids) ==
  [i \in DOMAIN nodes |-> [nodes[i] EXCEPT !.id = uuids[i]]]

\* paste: idMap.get(id), <<>> for an id that was not pasted
idMap(store, uuids, id) ==
  LET copied == {i \in DOMAIN store.clipboard.nodes :
                   store.clipboard.nodes[i].id = id}
  IN IF copied = {} THEN <<>> ELSE <<uuids[CHOOSE i \in copied : TRUE]>>

\* paste: the clipboard edges with both ends pasted, under the new ids that
\* follow those of the nodes
pasteEdges(store, uuids) ==
  LET both == SelectSeq(store.clipboard.edges, LAMBDA edge :
                /\ idMap(store, uuids, edge.sourceNodeId) # <<>>
                /\ idMap(store, uuids, edge.targetNodeId) # <<>>)
  IN [i \in DOMAIN both |->
        [both[i] EXCEPT
           !.id = uuids[Len(store.clipboard.nodes) + i],
           !.sourceNodeId = idMap(store, uuids, both[i].sourceNodeId)[1],
           !.targetNodeId = idMap(store, uuids, both[i].targetNodeId)[1]]]

\* canvasStore.paste: nothing happens with an empty clipboard; otherwise
\* the history is saved first and the pasted elements become the selection
paste(store, uuids) ==
  IF store.clipboard.nodes = <<>> /\ store.clipboard.edges = <<>> THEN store
  ELSE LET saved == saveHistory(store)
           nodes == pasteNodes(store.clipboard.nodes, uuids)
           edges == pasteEdges(store, uuids)
       IN [saved EXCEPT
             !.canvasState.nodes = @ \o nodes,
             !.canvasState.edges = @ \o edges,
             !.selection = [nodes |-> {nodes[i].id : i \in DOMAIN nodes},
                            edges |-> {edges[i].id : i \in DOMAIN edges}]]

\* canvasStore.addConstraint
addConstraint(store, constraint) ==
  saveHistory([store EXCEPT !.canvasState.constraints = MapSet(@, constraint)])

\* canvasStore.updateConstraint with updates {name}: without the
\* constraint nothing is set and nothing is saved
updateConstraint(store, id, name) ==
  IF MapHas(store.canvasState.constraints, id)
  THEN saveHistory([store EXCEPT !.canvasState.constraints =
         MapSet(@, [MapGet(@, id) EXCEPT !.name = name])])
  ELSE store

\* canvasStore.removeConstraint
removeCanvasConstraint(store, id) ==
  saveHistory([store EXCEPT !.canvasState.constraints = MapDelete(@, id)])

\* canvasStore.loadState: the history starts over with the loaded canvas
loadState(store, newState) ==
  [store EXCEPT !.canvasState = newState,
                !.selection = NoSelection,
                !.history = <<HistoryEntry(newState)>>,
                !.historyIndex = 0]

\* canvasStore.reset
reset(store) ==
  [store EXCEPT !.canvasState = EmptyCanvas,
                !.selection = NoSelection,
                !.history = <<>>,
                !.historyIndex = -1]

(***************************************************************************)
(* The calls on canvasStore.  The elements drawn are an entity and a fact  *)
(* type, a role edge between them and a uniqueness constraint on the edge; *)
(* every call is written to the journal with the canvas and the history    *)
(* index before and after it and with what canUndo() and canRedo()         *)
(* answered before it.                                                     *)
(***************************************************************************)
HistoryNodes == {CanvasNode(EntityId(1)), CanvasNode(FactTypeId(1))}

HistoryEdge ==
  [id |-> PredicatorId(1), type |-> "predicator", label |-> <<"o","f">>,
   sourceNodeId |-> FactTypeId(1), targetNodeId |-> EntityId(1)]

HistoryConstraint ==
  GraphConstraint("u1", "uniqueness", <<PredicatorId(1)>>, <<>>)

\* the canvases loadState is called with
LoadedCanvases ==
  {EmptyCanvas, [EmptyCanvas EXCEPT !.nodes = <<CanvasNode(EntityId(1))>>]}

\* the store after n calls, n < maxHistory, in a session that adds the
\* entity and removes it again, over and over: saveHistory has pushed the
\* canvas after each call
Session(n) ==
  LET canvasAfter(i) ==
        IF i % 2 = 1
        THEN [EmptyCanvas EXCEPT !.nodes = <<CanvasNode(EntityId(1))>>]
        ELSE EmptyCanvas
  IN [canvasState |-> canvasAfter(n), selection |-> NoSelection,
      history |-> [i \in 1..n |-> HistoryEntry(canvasAfter(i))],
      historyIndex |-> n - 1,
      clipboard |-> [nodes |-> <<>>, edges |-> <<>>]]

\* canvasStore when it is created, or late in a long session, one entry
\* short of a full history
InitHistory ==
  /\ schema = EmptySchema
  /\ population = EmptyPopulation
  /\ pc = "edit"
  /\ dialect = "PostgreSQL"
  /\ sqlSchema = NoSQL
  /\ ddl = <<>>
  /\ validation = NoValidation
  /\ returned = <<>>
  /\ journal = <<>>
  /\ projectStore = [projects |-> <<>>, currentProjectId |-> <<>>]
  /\ localStorage = [mathgraph_projects |-> <<>>,
                     mathgraph_current_project |-> <<>>]
  /\ \E session \in {Session(0), Session(maxHistory - 1)} :
       /\ canvasState = session.canvasState
       /\ selection = session.selection
       /\ history = session.history
       /\ historyIndex = session.historyIndex
       /\ clipboard = session.clipboard

\* a call op on the store that leaves the store after
Call(op, after) ==
  /\ pc = "edit"
  /\ Len(journal) < MaxOperations
  /\ canvasState' = after.canvasState
  /\ selection' = after.selection
  /\ history' = after.history
  /\ historyIndex' = after.historyIndex
  /\ clipboard' = after.clipboard
  /\ journal' = Append(journal,
       [op |-> op, before |-> canvasState, after |-> after.canvasState,
        indexBefore |-> historyIndex, indexAfter |-> after.historyIndex,
        canUndo |-> canUndo(Store), canRedo |-> canRedo(Store)])
  /\ UNCHANGED <<schema, population, pc, dialect, sqlSchema, ddl, validation,
                 returned, projectStore, localStorage>>

CallAddNode == \E node \in HistoryNodes : Call("addNode", addNode(Store, node))

CallUpdateNode ==
  \E node \in HistoryNodes :
    Call("updateNode", updateNode(Store, node.id, <<"N">>))

CallRemoveNode ==
  \E node \in HistoryNodes :
    Call("removeNode", removeCanvasNode(Store, node.id))

CallAddEdge == Call("addEdge", addEdge(Store, HistoryEdge))

CallRemoveEdge == Call("removeEdge", removeEdge(Store, HistoryEdge.id))

CallUpdateEdge ==
  Call("updateEdge", updateEdge(Store, HistoryEdge.id, <<"i","n">>))

CallFinishDrawingEdge ==
  Call("finishDrawingEdge", finishDrawingEdge(Store, HistoryEdge))

CallSelectNode ==
  \E node \in HistoryNodes : Call("selectNode", selectNode(Store, node.id))

CallSelectEdge == Call("selectEdge", selectEdge(Store, HistoryEdge.id))

CallDeleteSelected == Call("deleteSelected", deleteSelected(Store))

CallClear == Call("clear", clear(Store))

CallUndo == Call("undo", undo(Store))

CallRedo == Call("redo", redo(Store))

CallCopy == Call("copy", copy(Store))

\* crypto.randomUUID() returns ids that are on the canvas not yet, one
\* after the other
CallPaste ==
  \E uuids \in [1..2 -> UUIDs] :
    /\ uuids[1] # uuids[2]
    /\ \A i \in 1..2 : ~MapHas(canvasState.nodes, uuids[i])
                       /\ ~MapHas(canvasState.edges, uuids[i])
    /\ Call("paste", paste(Store, uuids))

CallAddConstraint ==
  Call("addConstraint", addConstraint(Store, HistoryConstraint))

CallUpdateConstraint ==
  Call("updateConstraint",
       updateConstraint(Store, HistoryConstraint.id, <<<<"k">>>>))

CallRemoveConstraint ==
  Call("removeConstraint", removeCanvasConstraint(Store, HistoryConstraint.id))

CallLoadState ==
  \E newState \in LoadedCanvases : Call("loadState", loadState(Store, newState))

CallReset == Call("reset", reset(Store))

NextHistory ==
  \/ CallAddNode
  \/ CallUpdateNode
  \/ CallRemoveNode
  \/ CallAddEdge
  \/ CallRemoveEdge
  \/ CallUpdateEdge
  \/ CallFinishDrawingEdge
  \/ CallSelectNode
  \/ CallSelectEdge
  \/ CallDeleteSelected
  \/ CallClear
  \/ CallUndo
  \/ CallRedo
  \/ CallCopy
  \/ CallPaste
  \/ CallAddConstraint
  \/ CallUpdateConstraint
  \/ CallRemoveConstraint
  \/ CallLoadState
  \/ CallReset

SpecHistory == InitHistory /\ [][NextHistory]_vars

\* the calls that save the history
Mutations ==
  {"addNode", "updateNode", "removeNode", "addEdge", "removeEdge",
   "updateEdge", "deleteSelected", "paste", "clear", "addConstraint",
   "updateConstraint", "removeConstraint"}

\* C28: the history holds at most 50 entries, the history index lies
\* between -1 and history.length - 1, and canUndo() and canRedo() answered
\* true exactly before the calls of undo() and redo() that changed the
\* index
C28_HistoryBounded ==
  /\ Len(history) <= 50
  /\ -1 <= historyIndex
  /\ historyIndex <= Len(history) - 1
  /\ \A i \in DOMAIN journal :
       /\ journal[i].op = "undo"
            => (journal[i].canUndo <=> journal[i].indexAfter # journal[i].indexBefore)
       /\ journal[i].op = "redo"
            => (journal[i].canRedo <=> journal[i].indexAfter # journal[i].indexBefore)

\* a mutation was saved into a full history, whose oldest entry went, and
\* undo() was called after it
C28_Witness ==
  /\ Len(history) = 50
  /\ Len(journal) = 3
  /\ journal[2].op \in Mutations
  /\ journal[2].indexBefore = 49
  /\ journal[2].indexAfter = 49
  /\ journal[3].op = "undo"
  /\ journal[3].canUndo
  /\ historyIndex = 48

\* C29: a call of undo() right after a mutation leaves the nodes, edges
\* and constraints of the canvas as they were before the mutation, and a
\* call of redo() right after that leaves them as they were after it
C29_UndoRestores ==
  \A i \in DOMAIN journal :
    (i > 1 /\ journal[i].op = "undo" /\ journal[i - 1].op \in Mutations)
      => /\ journal[i].after = journal[i - 1].before
         /\ (i < Len(journal) /\ journal[i + 1].op = "redo")
              => journal[i + 1].after = journal[i - 1].after

(***************************************************************************)
(* projectStore and window.localStorage (project-store.ts).  A project     *)
(* holds the canvas state canvasStore had when updateProject was called;   *)
(* every method of projectStore writes all projects to localStorage, and   *)
(* a reload of the page creates the store from what localStorage holds.    *)
(* The text localStorage holds is modelled by the value JSON.parse gives   *)
(* for it.                                                                 *)
(***************************************************************************)
MaxProjects == 2

\* the collections of a canvas state: a Map with its values in insertion
\* order, a Set with its elements in insertion order, an array, and the
\* object without properties
MapOf(values) == [type |-> "Map", values |-> values]

SetOf(elements) == [type |-> "Set", values |-> elements]

ArrayOf(items) == [type |-> "Array", values |-> items]

PlainObject == [type |-> "Object", values |-> <<>>]

\* JSON.parse(JSON.stringify(value)) for a collection: a Map or a Set has
\* no enumerable properties of its own, so its text is {}; an array of
\* plain objects and strings comes back as it is
JSON_roundTrip(value) ==
  IF value.type \in {"Map", "Set"} THEN PlainObject ELSE value

\* the canvas states updateProject is called with: an empty canvas, a
\* drawing with a selected node and edge, and a drawing with a constraint
ProjectCanvases ==
  { [nodes |-> MapOf(<<>>), edges |-> MapOf(<<>>),
     constraints |-> MapOf(<<>>), selectedNodes |-> SetOf(<<>>),
     selectedEdges |-> SetOf(<<>>), selectedConstraints |-> SetOf(<<>>)],
    [nodes |-> MapOf(<<CanvasNode(FactTypeId(1)), CanvasNode(EntityId(1))>>),
     edges |-> MapOf(<<HistoryEdge>>), constraints |-> MapOf(<<>>),
     selectedNodes |-> SetOf(<<EntityId(1)>>),
     selectedEdges |-> SetOf(<<HistoryEdge.id>>),
     selectedConstraints |-> SetOf(<<>>)],
    [nodes |-> MapOf(<<CanvasNode(EntityId(1)), CanvasNode(FactTypeId(1))>>),
     edges |-> MapOf(<<HistoryEdge>>),
     constraints |-> MapOf(<<HistoryConstraint>>),
     selectedNodes |-> SetOf(<<>>), selectedEdges |-> SetOf(<<>>),
     selectedConstraints |-> SetOf(<<HistoryConstraint.id>>)] }

\* saveToLocalStorage: the canvas state of a project as it is written and
\* parsed again; nodes, edges, selectedNodes and selectedEdges are made
\* arrays, the other fields are spread as they are
StoredCanvas(canvas) ==
  [nodes |-> JSON_roundTrip(ArrayOf(entries(canvas.nodes.values))),
   edges |-> JSON_roundTrip(ArrayOf(entries(canvas.edges.values))),
   constraints |-> JSON_roundTrip(canvas.constraints),
   selectedNodes |-> JSON_roundTrip(ArrayOf(canvas.selectedNodes.values)),
   selectedEdges |-> JSON_roundTrip(ArrayOf(canvas.selectedEdges.values)),
   selectedConstraints |-> JSON_roundTrip(canvas.selectedConstraints)]

\* saveToLocalStorage: the two items written for a store
saveToLocalStorage(store) ==
  [mathgraph_projects |->
     << [i \in DOMAIN store.projects |->
           [store.projects[i] EXCEPT !.canvasState = StoredCanvas(@)]] >>,
   mathgraph_current_project |-> store.currentProjectId]

\* new Set(array): an element that comes again is left out
RECURSIVE NewSet(_)
NewSet(array) ==
  IF array = <<>> THEN <<>>
  ELSE LET front == NewSet(SubSeq(array, 1, Len(array) - 1))
           last == array[Len(array)]
       IN IF last \in Range(front) THEN front ELSE Append(front, last)

\* loadFromLocalStorage: the canvas state of a stored project; nodes and
\* edges are made Maps, selectedNodes and selectedEdges Sets, the other
\* fields are spread as they were parsed
LoadedCanvas(stored) ==
  [nodes |-> MapOf(NewMap(stored.nodes.values)),
   edges |-> MapOf(NewMap(stored.edges.values)),
   constraints |-> stored.constraints,
   selectedNodes |-> SetOf(NewSet(stored.selectedNodes.values)),
   selectedEdges |-> SetOf(NewSet(stored.selectedEdges.values)),
   selectedConstraints |-> stored.selectedConstraints]

\* loadFromLocalStorage: the store for the items of localStorage
loadFromLocalStorage(storage) ==
  IF storage.mathgraph_projects = <<>>
  THEN [projects |-> <<>>, currentProjectId |-> <<>>]
  ELSE [projects |->
          NewMap([i \in DOMAIN storage.mathgraph_projects[1] |->
            LET p == storage.mathgraph_projects[1][i]
            IN <<p.id, [p EXCEPT !.canvasState = LoadedCanvas(@)]>>]),
        currentProjectId |-> storage.mathgraph_current_project]

\* a call op of projectStore, or a reload, that leaves the store after
\* and the items storage in localStorage
ProjectCall(op, after, storage) ==
  /\ pc = "edit"
  /\ Len(journal) < MaxOperations
  /\ projectStore' = after
  /\ localStorage' = storage
  /\ journal' = Append(journal,
       [op |-> op, before |-> projectStore, after |-> after])
  /\ UNCHANGED <<schema, population, pc, dialect, sqlSchema, ddl, validation,
                 canvasState, returned, selection, history, historyIndex,
                 clipboard>>

\* projectStore.createProject
CreateProject ==
  \E id \in UUIDs :
    /\ Len(projectStore.projects) < MaxProjects
    /\ ~MapHas(projectStore.projects, id)
    /\ LET after ==
             [projects |-> MapSet(projectStore.projects,
                [id |-> id, name |-> <<"D">>,
                 canvasState |-> CHOOSE canvas \in ProjectCanvases :
                                   canvas.nodes.values = <<>>]),
              currentProjectId |-> <<id>>]
       IN ProjectCall("createProject", after, saveToLocalStorage(after))

\* projectStore.updateProject: without the project nothing is written
UpdateProject ==
  \E id \in UUIDs, canvas \in ProjectCanvases :
    LET after ==
          IF MapHas(projectStore.projects, id)
          THEN [projectStore EXCEPT !.projects =
                  MapSet(@, [MapGet(@, id) EXCEPT !.canvasState = canvas])]
          ELSE projectStore
    IN ProjectCall("updateProject", after,
         IF MapHas(projectStore.projects, id) THEN saveToLocalStorage(after)
         ELSE localStorage)

\* projectStore.deleteProject
DeleteProject ==
  \E id \in UUIDs :
    LET after ==
          [projects |-> MapDelete(projectStore.projects, id),
           currentProjectId |->
             IF projectStore.currentProjectId = <<id>> THEN <<>>
             ELSE projectStore.currentProjectId]
    IN ProjectCall("deleteProject", after, saveToLocalStorage(after))

\* the page is loaded again: createProjectStore starts from
\* loadFromLocalStorage()
Reload ==
  ProjectCall("reload", loadFromLocalStorage(localStorage), localStorage)

NextProject ==
  \/ CreateProject
  \/ UpdateProject
  \/ DeleteProject
  \/ Reload

SpecProject == Init /\ [][NextProject]_vars

\* C30: after a reload every project is there again, and the nodes, edges
\* and constraints maps and the selected node and edge sets of its canvas
\* state hold the entries they held before the reload
C30_RoundTrip ==
  \A i \in DOMAIN journal :
    journal[i].op = "reload" =>
      /\ Len(journal[i].after.projects) = Len(journal[i].before.projects)
      /\ \A k \in DOMAIN journal[i].before.projects :
           LET saved == journal[i].before.projects[k].canvasState
               loaded == journal[i].after.projects[k].canvasState
           IN /\ loaded.nodes.values = saved.nodes.values
              /\ loaded.edges.values = saved.edges.values
              /\ loaded.constraints.values = saved.constraints.values
              /\ loaded.selectedNodes.values = saved.selectedNodes.values
              /\ loaded.selectedEdges.values = saved.selectedEdges.values

====
